---- MODULE Spec2Model ----
(***************************************************************************)
(* BookTracker: the persistence service (services/storage.js), the reading *)
(* list service built on it (services/readingListService.js) and the       *)
(* remote catalog client (services/api.js), as state machines.             *)
(*                                                                         *)
(* JavaScript values are tagged records: [t |-> "number", n |-> 1],        *)
(* [t |-> "string", s |-> "a"], [t |-> "array", items |-> <<...>>],        *)
(* [t |-> "object", props |-> f] with f a function from property names to  *)
(* values, [t |-> "null"], [t |-> "undefined"].  A string held by          *)
(* localStorage is [kind |-> "json", val |-> v] when it is the JSON text   *)
(* of v and [kind |-> "text", s |-> "..."] when it is not JSON at all.     *)
(***************************************************************************)
EXTENDS Integers, Sequences, FiniteSets, TLC

VARIABLES
    localStorage,   \* the substrate: full key -> stored string
    substrate,      \* "ok", "unavailable" (every access throws), "tight" (record writes hit the quota)
    now,            \* Date.now()
    last,           \* the last call of the persistence service and its result
    exported,       \* the backup text the last successful exportData returned
    snapshot,       \* localStorage as it was when that backup was taken
    trail,          \* how far the sequence export, clear, import(backup) has got
    defaultReadingLists,  \* the contents of the three arrays of defaultReadingLists
    ownLists,       \* the contents of the three arrays of listsCache when they are its own
    aliased,        \* the arrays of listsCache are the arrays of defaultReadingLists
    lastList,       \* the last call of the reading list service and its result
    subscribers,    \* the Set of subscribers: the callbacks registered, in insertion order
    notified,       \* the invocations of callbacks that the last call made, in order
    requestCount,   \* state.requestCount
    lastRequestTime,  \* state.lastRequestTime, the start of the window the limiter recorded
    cache,          \* state.cache: cache key -> [data, expiry]
    call,           \* the search or getDetails call under way, or the last one settled
    calls,          \* how many calls the client has been given
    waiting,        \* the throttledFetch calls held in waitForRateLimit, in timer order
    served,         \* the throttledFetch calls that have reached fetch, and whether they slept first
    issued,         \* how many requests went out in the window that starts at lastRequestTime
    loading,        \* state.loading: the flags search, bookDetails and global
    lastError,      \* state.lastError
    loadingSubscribers,  \* state.subscribers: the callbacks registered, in insertion order
    loadingNotified,     \* the calls of callbacks the last step made, in order
    parked          \* the calls under way whose request the backend is not answering yet

storeVars == <<localStorage, substrate, now, last, exported, snapshot, trail>>

listVars == <<defaultReadingLists, ownLists, aliased, lastList, subscribers, notified>>

uiVars == <<loading, lastError, loadingSubscribers, loadingNotified>>

apiVars ==
    <<requestCount, lastRequestTime, cache, call, calls, waiting, served, issued, uiVars,
      parked>>

vars == <<storeVars, listVars, apiVars>>

----------------------------------------------------------------------------
(* JavaScript values *)

Null == [t |-> "null"]

Undef == [t |-> "undefined"]

Num(n) == [t |-> "number", n |-> n]

Str(s) == [t |-> "string", s |-> s]

Arr(items) == [t |-> "array", items |-> items]

Obj(props) == [t |-> "object", props |-> props]

NoProps == [x \in {} |-> Null]

\* typeof v
TypeOf(v) ==
    CASE v.t = "null" -> "object"
      [] v.t = "array" -> "object"
      [] OTHER -> v.t

IsArray(v) == v.t = "array"

\* 'name' in v, for a v that is an object or an array
HasProp(v, name) == v.t = "object" /\ name \in DOMAIN v.props

\* v[name], undefined when v has no such property
Get(v, name) == IF HasProp(v, name) THEN v.props[name] ELSE Undef

\* the truthiness of v
Truthy(v) ==
    CASE v.t = "null" -> FALSE
      [] v.t = "undefined" -> FALSE
      [] v.t = "number" -> v.n # 0
      [] v.t = "string" -> v.s # ""
      [] OTHER -> TRUE

\* { ...a, ...b } for two objects
Spread(a, b) ==
    Obj([x \in DOMAIN a.props \cup DOMAIN b.props |->
            IF x \in DOMAIN b.props THEN b.props[x] ELSE a.props[x]])

----------------------------------------------------------------------------
(* JSON.stringify and JSON.parse *)

RECURSIVE JsonValue(_)
\* The value JSON.stringify(v) denotes: a property whose value is undefined is
\* left out, an undefined array element becomes null.
JsonValue(v) ==
    CASE v.t = "object" ->
            LET keep == {x \in DOMAIN v.props : v.props[x].t # "undefined"}
            IN  Obj([x \in keep |-> JsonValue(v.props[x])])
      [] v.t = "array" ->
            Arr([i \in 1..Len(v.items) |->
                    IF v.items[i].t = "undefined" THEN Null ELSE JsonValue(v.items[i])])
      [] OTHER -> v

JSONstringify(v) == [kind |-> "json", val |-> JsonValue(v)]

Text(s) == [kind |-> "text", s |-> s]

\* JSON.parse(text) throws a SyntaxError exactly when the text is not JSON
ParseThrows(text) == text.kind # "json"

JSONparse(text) == text.val

RECURSIVE JsonSerializable(_)
\* v survives JSON.stringify followed by JSON.parse: no undefined inside it
JsonSerializable(v) ==
    CASE v.t = "undefined" -> FALSE
      [] v.t = "object" -> \A x \in DOMAIN v.props : JsonSerializable(v.props[x])
      [] v.t = "array" -> \A i \in 1..Len(v.items) : JsonSerializable(v.items[i])
      [] OTHER -> TRUE

----------------------------------------------------------------------------
(* storage.js: keys and schemas *)

STORAGE_PREFIX == "booktracker_"

READING_LISTS == "reading_lists"

USER_PREFERENCES == "user_preferences"

SEARCH_HISTORY == "search_history"

searchHistoryMaxItems == 50

NoEnum == {}

PropSchema(type, enum) == [type |-> type, enum |-> enum]

\* the keys of `schemas` the model uses
SchemaKeys == {READING_LISTS, USER_PREFERENCES, SEARCH_HISTORY}

HasSchema(key) == key \in SchemaKeys

schemas(key) ==
    CASE key = READING_LISTS ->
            [type |-> "object", maxItems |-> 0,
             order |-> <<"reading", "toRead", "completed">>,
             properties |-> [p \in {"reading", "toRead", "completed"} |->
                                PropSchema("array", NoEnum)]]
      [] key = USER_PREFERENCES ->
            [type |-> "object", maxItems |-> 0,
             order |-> <<"theme", "booksPerPage", "defaultView">>,
             properties |->
                 ("theme" :> PropSchema("string", {Str("light"), Str("dark"), Str("system")}))
              @@ ("booksPerPage" :> PropSchema("number", NoEnum))
              @@ ("defaultView" :> PropSchema("string", {Str("grid"), Str("list")}))]
      [] key = SEARCH_HISTORY ->
            [type |-> "array", maxItems |-> searchHistoryMaxItems,
             order |-> <<>>, properties |-> NoProps]

getFullKey(key) == STORAGE_PREFIX \o key

\* key.startsWith(STORAGE_PREFIX)
startsWithPrefix(fullKey) ==
    /\ Len(fullKey) >= Len(STORAGE_PREFIX)
    /\ SubSeq(fullKey, 1, Len(STORAGE_PREFIX)) = STORAGE_PREFIX

\* fullKey.replace(STORAGE_PREFIX, ''), for a fullKey that starts with the
\* prefix: the first occurrence is the leading one
stripPrefix(fullKey) == SubSeq(fullKey, Len(STORAGE_PREFIX) + 1, Len(fullKey))

----------------------------------------------------------------------------
(* storage.js: validateData *)

\* the errors one declared property adds
PropErrors(data, propName, propSchema) ==
    IF Get(data, propName).t = "undefined" THEN <<>>
    ELSE LET v == data.props[propName]
             propType == IF IsArray(v) THEN "array" ELSE TypeOf(v)
         IN  (IF propType # propSchema.type THEN <<"type:" \o propName>> ELSE <<>>)
          \o (IF propSchema.enum # NoEnum /\ v \notin propSchema.enum
                 THEN <<"enum:" \o propName>> ELSE <<>>)

RECURSIVE PropsErrors(_, _, _)
PropsErrors(data, schema, i) ==
    IF i > Len(schema.order) THEN <<>>
    ELSE PropErrors(data, schema.order[i], schema.properties[schema.order[i]])
         \o PropsErrors(data, schema, i + 1)

\* validateData(data, schema).errors; valid is errors.length === 0
validateErrors(data, schema) ==
    CASE schema.type = "array" ->
            IF ~IsArray(data) THEN <<"expected array">>
            ELSE IF schema.maxItems # 0 /\ Len(data.items) > schema.maxItems
                 THEN <<"too long">> ELSE <<>>
      [] schema.type = "object" ->
            IF TypeOf(data) # "object" \/ data.t = "null" \/ IsArray(data)
            THEN <<"expected object">>
            ELSE PropsErrors(data, schema, 1)
      [] OTHER ->
            IF TypeOf(data) # schema.type THEN <<"expected scalar">> ELSE <<>>

validateData(data, schema) == validateErrors(data, schema) = <<>>

----------------------------------------------------------------------------
(* storage.js: the substrate and the results *)

TEST_KEY == "__storage_test__"

Put(store, k, item) ==
    [x \in DOMAIN store \cup {k} |-> IF x = k THEN item ELSE store[x]]

Remove(store, k) == [x \in DOMAIN store \ {k} |-> store[x]]

\* isStorageAvailable(): the probe write throws when the substrate is unreachable
isStorageAvailable(sub) == sub # "unavailable"

\* what the probe leaves behind: setItem(test, test) then removeItem(test)
Probed(store, sub) == IF isStorageAvailable(sub) THEN Remove(store, TEST_KEY) ELSE store

\* localStorage.setItem of a record throws QuotaExceededError
QuotaThrows(sub) == sub = "tight"

Success ==
    [success |-> TRUE, code |-> "", data |-> Undef, timestamp |-> Undef,
     imported |-> {}, warnings |-> {}]

Failure(code) == [Success EXCEPT !.success = FALSE, !.code = code]

Envelope(data, t) ==
    Obj(("data" :> data) @@ ("timestamp" :> Num(t)) @@ ("version" :> Num(1)))

----------------------------------------------------------------------------
(* storage.js: saveData, loadData, removeData, clearAllData *)

\* the envelope-free variant a careless edit would produce: a value that
\* already has a data property is written as it is
saveDataNoWrap(store, sub, t, key, data, validate) ==
    LET s1 == Probed(store, sub)
        item == IF HasProp(data, "data") THEN JSONstringify(data)
                ELSE JSONstringify(Envelope(data, t))
    IN  IF ~isStorageAvailable(sub)
        THEN [store |-> s1, res |-> Failure("STORAGE_UNAVAILABLE")]
        ELSE IF validate /\ HasSchema(key) /\ ~validateData(data, schemas(key))
        THEN [store |-> s1, res |-> Failure("VALIDATION_FAILED")]
        ELSE IF QuotaThrows(sub)
        THEN [store |-> s1, res |-> Failure("QUOTA_EXCEEDED")]
        ELSE [store |-> Put(s1, getFullKey(key), item), res |-> Success]

\* the variant that writes before it validates
saveDataWriteFirst(store, sub, t, key, data, validate) ==
    LET s1 == Probed(store, sub)
        s2 == Put(s1, getFullKey(key), JSONstringify(Envelope(data, t)))
    IN  IF ~isStorageAvailable(sub)
        THEN [store |-> s1, res |-> Failure("STORAGE_UNAVAILABLE")]
        ELSE IF QuotaThrows(sub)
        THEN [store |-> s1, res |-> Failure("QUOTA_EXCEEDED")]
        ELSE IF validate /\ HasSchema(key) /\ ~validateData(data, schemas(key))
        THEN [store |-> s2, res |-> Failure("VALIDATION_FAILED")]
        ELSE [store |-> s2, res |-> Success]

\* the variant whose catch block lacks the quota test: the substrate's
\* exception is wrapped like any other
saveDataQuotaUncaught(store, sub, t, key, data, validate) ==
    LET s1 == Probed(store, sub)
    IN  IF ~isStorageAvailable(sub)
        THEN [store |-> s1, res |-> Failure("STORAGE_UNAVAILABLE")]
        ELSE IF validate /\ HasSchema(key) /\ ~validateData(data, schemas(key))
        THEN [store |-> s1, res |-> Failure("VALIDATION_FAILED")]
        ELSE IF QuotaThrows(sub)
        THEN [store |-> s1, res |-> Failure("INVALID_DATA")]
        ELSE [store |-> Put(s1, getFullKey(key), JSONstringify(Envelope(data, t))),
              res |-> Success]

saveData(store, sub, t, key, data, validate) ==
    LET s1 == Probed(store, sub)
    IN  IF ~isStorageAvailable(sub)
        THEN [store |-> s1, res |-> Failure("STORAGE_UNAVAILABLE")]
        ELSE IF validate /\ HasSchema(key) /\ ~validateData(data, schemas(key))
        THEN [store |-> s1, res |-> Failure("VALIDATION_FAILED")]
        ELSE IF QuotaThrows(sub)
        THEN [store |-> s1, res |-> Failure("QUOTA_EXCEEDED")]
        ELSE [store |-> Put(s1, getFullKey(key), JSONstringify(Envelope(data, t))),
              res |-> Success]

\* the variant without the legacy branch: every stored value is taken for an
\* envelope
loadDataNoLegacy(store, sub, key, defaultValue) ==
    LET s1 == Probed(store, sub)
        fullKey == getFullKey(key)
    IN  IF ~isStorageAvailable(sub)
        THEN [store |-> s1,
              res |-> [Failure("STORAGE_UNAVAILABLE") EXCEPT !.data = defaultValue]]
        ELSE IF fullKey \notin DOMAIN s1
        THEN [store |-> s1, res |-> [Success EXCEPT !.data = defaultValue]]
        ELSE IF ParseThrows(s1[fullKey])
        THEN [store |-> s1, res |-> [Failure("PARSE_ERROR") EXCEPT !.data = defaultValue]]
        ELSE LET parsed == JSONparse(s1[fullKey])
             IN  [store |-> s1,
                  res |-> [Success EXCEPT !.data = Get(parsed, "data"),
                                          !.timestamp = Get(parsed, "timestamp")]]

\* the variant that reports a missing key as an error
loadDataAbsentIsError(store, sub, key, defaultValue) ==
    LET s1 == Probed(store, sub)
        fullKey == getFullKey(key)
    IN  IF ~isStorageAvailable(sub)
        THEN [store |-> s1,
              res |-> [Failure("STORAGE_UNAVAILABLE") EXCEPT !.data = defaultValue]]
        ELSE IF fullKey \notin DOMAIN s1
        THEN [store |-> s1, res |-> [Failure("KEY_NOT_FOUND") EXCEPT !.data = defaultValue]]
        ELSE IF ParseThrows(s1[fullKey])
        THEN [store |-> s1, res |-> [Failure("PARSE_ERROR") EXCEPT !.data = defaultValue]]
        ELSE LET parsed == JSONparse(s1[fullKey])
             IN  IF Truthy(parsed) /\ TypeOf(parsed) = "object" /\ HasProp(parsed, "data")
                 THEN [store |-> s1,
                       res |-> [Success EXCEPT !.data = parsed.props["data"],
                                               !.timestamp = Get(parsed, "timestamp")]]
                 ELSE [store |-> s1, res |-> [Success EXCEPT !.data = parsed]]

loadData(store, sub, key, defaultValue) ==
    LET s1 == Probed(store, sub)
        fullKey == getFullKey(key)
    IN  IF ~isStorageAvailable(sub)
        THEN [store |-> s1,
              res |-> [Failure("STORAGE_UNAVAILABLE") EXCEPT !.data = defaultValue]]
        ELSE IF fullKey \notin DOMAIN s1
        THEN [store |-> s1, res |-> [Success EXCEPT !.data = defaultValue]]
        ELSE IF ParseThrows(s1[fullKey])
        THEN [store |-> s1, res |-> [Failure("PARSE_ERROR") EXCEPT !.data = defaultValue]]
        ELSE LET parsed == JSONparse(s1[fullKey])
             IN  IF Truthy(parsed) /\ TypeOf(parsed) = "object" /\ HasProp(parsed, "data")
                 THEN [store |-> s1,
                       res |-> [Success EXCEPT !.data = parsed.props["data"],
                                               !.timestamp = Get(parsed, "timestamp")]]
                 ELSE [store |-> s1, res |-> [Success EXCEPT !.data = parsed]]

removeData(store, sub, key) ==
    IF ~isStorageAvailable(sub)
    THEN [store |-> store, res |-> Failure("STORAGE_UNAVAILABLE")]
    ELSE [store |-> Remove(Probed(store, sub), getFullKey(key)), res |-> Success]

\* the catch block of clearAllData wraps every error, the StorageError it threw
\* itself included, as INVALID_DATA
clearAllData(store, sub) ==
    IF ~isStorageAvailable(sub)
    THEN [store |-> store, res |-> Failure("INVALID_DATA")]
    ELSE LET s1 == Probed(store, sub)
             keysToRemove == {k \in DOMAIN s1 : startsWithPrefix(k)}
         IN  [store |-> [x \in DOMAIN s1 \ keysToRemove |-> s1[x]], res |-> Success]

----------------------------------------------------------------------------
(* storage.js: exportData *)

\* what exportData puts under a key: JSON.parse(item), or the item itself
\* when it does not parse
ExportedValue(item) == IF ParseThrows(item) THEN Str(item.s) ELSE JSONparse(item)

\* the catch block of exportData wraps every error as EXPORT_ERROR
exportData(store, sub, t) ==
    IF ~isStorageAvailable(sub)
    THEN [store |-> store, res |-> Failure("EXPORT_ERROR")]
    ELSE LET s1 == Probed(store, sub)
             fullKeys == {k \in DOMAIN s1 : startsWithPrefix(k)}
             data == Obj([key \in {stripPrefix(k) : k \in fullKeys} |->
                             ExportedValue(s1[getFullKey(key)])])
             exportObject == Obj(("version" :> Num(1))
                              @@ ("exportedAt" :> Str(ToString(t)))
                              @@ ("app" :> Str("BookTracker"))
                              @@ ("data" :> data))
         IN  [store |-> s1, res |-> [Success EXCEPT !.data = JSONstringify(exportObject)]]

\* getStorageStats(), by the number of items it counts; the lengths it adds
\* up are those of the stored texts, which the model does not keep
getStorageStats(store, sub) ==
    IF ~isStorageAvailable(sub)
    THEN [store |-> store, res |-> [Success EXCEPT !.data = Obj("items" :> Num(0))]]
    ELSE LET s1 == Probed(store, sub)
             items == Cardinality({k \in DOMAIN s1 : startsWithPrefix(k)})
         IN  [store |-> s1, res |-> [Success EXCEPT !.data = Obj("items" :> Num(items))]]

----------------------------------------------------------------------------
(* storage.js: importData *)

METADATA_FIELDS == {"version", "exportedAt", "app"}

\* Object.entries(v) as a function from key to value
Entries(v) ==
    CASE v.t = "object" -> v.props
      [] v.t = "array" -> [k \in {ToString(i - 1) : i \in 1..Len(v.items)} |->
                              v.items[CHOOSE i \in 1..Len(v.items) : ToString(i - 1) = k]]
      [] OTHER -> NoProps

\* value && typeof value === 'object' && 'data' in value ? value.data : value
Unwrap(value) ==
    IF Truthy(value) /\ TypeOf(value) = "object" /\ HasProp(value, "data")
    THEN value.props["data"] ELSE value

\* a === b for the identifiers the merge compares: two objects are never the same
StrictEq(a, b) == a = b /\ a.t \notin {"object", "array"}

\* reading .id of null or undefined throws a TypeError
IdThrows(item) == item.t \in {"null", "undefined"}

\* merged.findIndex(e => e.id === id): the index, 0 for none, -1 when it throws
findIndexById(merged, id) ==
    LET hits == {i \in 1..Len(merged) : ~IdThrows(merged[i]) /\ StrictEq(Get(merged[i], "id"), id)}
        stop == IF hits = {} THEN Len(merged) + 1
                ELSE CHOOSE i \in hits : \A j \in hits : i <= j
    IN  IF \E j \in 1..(stop - 1) : IdThrows(merged[j]) THEN -1
        ELSE IF hits = {} THEN 0 ELSE stop

\* one call of the forEach callback: [merged, threw]
mergeItem(merged, item) ==
    IF IdThrows(item) THEN [merged |-> merged, threw |-> TRUE]
    ELSE LET id == Get(item, "id")
             existingIndex == IF Truthy(id) THEN findIndexById(merged, id) ELSE 0
         IN  IF existingIndex = -1 THEN [merged |-> merged, threw |-> TRUE]
             ELSE IF existingIndex >= 1
             THEN [merged |-> [merged EXCEPT ![existingIndex] = item], threw |-> FALSE]
             ELSE [merged |-> Append(merged, item), threw |-> FALSE]

RECURSIVE mergeArrays(_, _, _)
\* merged = [...existing] after the forEach has handled the first n incoming items
mergeArrays(existing, incoming, n) ==
    IF n = 0 THEN [merged |-> existing, threw |-> FALSE]
    ELSE LET before == mergeArrays(existing, incoming, n - 1)
         IN  IF before.threw THEN before ELSE mergeItem(before.merged, incoming[n])

\* one round of the loop over Object.entries(dataToImport)
importKey(acc, sub, t, key, value, merge, validate) ==
    IF key \in METADATA_FIELDS THEN acc
    ELSE IF validate /\ HasSchema(key) /\ ~validateData(Unwrap(value), schemas(key))
    THEN [acc EXCEPT !.errors = @ \cup {key}]
    ELSE LET actualValue == Unwrap(value)
             existing == loadData(acc.store, sub, key, Null)
             old == existing.res.data
             plain == saveData(acc.store, sub, t, key, actualValue, FALSE).store
         IN  IF ~merge
             THEN [acc EXCEPT !.store = plain, !.imported = @ \cup {key}]
             ELSE IF ~(existing.res.success /\ Truthy(old) /\ TypeOf(old) = "object")
             THEN [acc EXCEPT !.store = plain, !.imported = @ \cup {key}]
             ELSE IF IsArray(old) /\ IsArray(actualValue)
             THEN LET m == mergeArrays(old.items, actualValue.items, Len(actualValue.items))
                  IN  IF m.threw THEN [acc EXCEPT !.store = existing.store, !.threw = TRUE]
                      ELSE [acc EXCEPT
                              !.store = saveData(existing.store, sub, t, key,
                                                 Arr(m.merged), FALSE).store,
                              !.imported = @ \cup {key}]
             ELSE IF TypeOf(actualValue) = "object"
             THEN [acc EXCEPT
                     !.store = saveData(existing.store, sub, t, key,
                                        Spread(Obj(Entries(old)), Obj(Entries(actualValue))),
                                        FALSE).store,
                     !.imported = @ \cup {key}]
             ELSE [acc EXCEPT !.store = plain, !.imported = @ \cup {key}]

RECURSIVE importKeys(_, _, _, _, _, _, _)
\* the loop; the entries are taken in one fixed order, which matters to the
\* outcome only when a round throws
importKeys(acc, sub, t, entries, todo, merge, validate) ==
    IF todo = {} \/ acc.threw THEN acc
    ELSE LET key == CHOOSE k \in todo : TRUE
         IN  importKeys(importKey(acc, sub, t, key, entries[key], merge, validate),
                        sub, t, entries, todo \ {key}, merge, validate)

importData(store, sub, t, jsonString, merge, validate) ==
    LET s1 == Probed(store, sub)
    IN  IF ~isStorageAvailable(sub)
        THEN [store |-> s1, res |-> Failure("STORAGE_UNAVAILABLE")]
        ELSE IF ParseThrows(jsonString)
        THEN [store |-> s1, res |-> Failure("PARSE_ERROR")]
        ELSE LET importObject == JSONparse(jsonString)
                 dataToImport == IF Truthy(Get(importObject, "data"))
                                 THEN importObject.props["data"] ELSE importObject
             IN  IF ~Truthy(importObject) \/ TypeOf(importObject) # "object"
                 THEN [store |-> s1, res |-> Failure("IMPORT_ERROR")]
                 ELSE IF TypeOf(dataToImport) # "object" \/ dataToImport.t = "null"
                 THEN [store |-> s1, res |-> Failure("IMPORT_ERROR")]
                 ELSE LET entries == Entries(dataToImport)
                          acc == importKeys([store |-> s1, imported |-> {}, errors |-> {},
                                             threw |-> FALSE],
                                            sub, t, entries, DOMAIN entries, merge, validate)
                      IN  IF acc.threw
                          THEN [store |-> acc.store, res |-> Failure("IMPORT_ERROR")]
                          ELSE IF acc.errors # {} /\ acc.imported = {}
                          THEN [store |-> acc.store, res |-> Failure("VALIDATION_FAILED")]
                          ELSE [store |-> acc.store,
                                res |-> [Success EXCEPT !.imported = acc.imported,
                                                        !.warnings = acc.errors]]

----------------------------------------------------------------------------
(* readingListService.js: the buckets *)

\* Object.keys(lists), in order
Buckets == <<"reading", "toRead", "completed">>

BucketNames == {"reading", "toRead", "completed"}

\* the property names of LIST_TYPES
LIST_TYPE_NAMES == {"READING", "TO_READ", "COMPLETED"}

\* listType.toUpperCase(), on the names the callers pass
toUpperCase(listType) ==
    CASE listType = "reading" -> "READING"
      [] listType = "toRead" -> "TOREAD"
      [] listType = "completed" -> "COMPLETED"
      [] listType = "to_read" -> "TO_READ"
      [] listType = "bogus" -> "BOGUS"
      [] OTHER -> listType

\* String(id)
String(id) ==
    CASE id.t = "number" -> ToString(id.n)
      [] id.t = "string" -> id.s
      [] OTHER -> id.t

\* new Date().toISOString().split('T')[0]
today == Str("today")

SetProp(o, name, v) ==
    Obj([x \in DOMAIN o.props \cup {name} |-> IF x = name THEN v ELSE o.props[x]])

DelProp(o, name) == Obj([x \in DOMAIN o.props \ {name} |-> o.props[x]])

\* o[name] = o[name] || v
DefaultProp(o, name, v) == IF Truthy(Get(o, name)) THEN o ELSE SetProp(o, name, v)

\* the comparison a === would make instead: the identifiers themselves
findIndexStrict(list, id) ==
    LET hits == {i \in 1..Len(list) :
                    Get(list[i], "id").t = "string" /\ Get(list[i], "id").s = id}
    IN  IF hits = {} THEN 0 ELSE CHOOSE i \in hits : \A j \in hits : i <= j

\* list.findIndex(b => String(b.id) === id), 0 for none
findIndex(list, id) ==
    LET hits == {i \in 1..Len(list) : String(Get(list[i], "id")) = id}
    IN  IF hits = {} THEN 0 ELSE CHOOSE i \in hits : \A j \in hits : i <= j

\* list.splice(i, 1)
splice(list, i) == SubSeq(list, 1, i - 1) \o SubSeq(list, i + 1, Len(list))

\* the three buckets as the object saveData is given
ListsValue(lists) == Obj([b \in BucketNames |-> Arr(lists[b])])

ListResult(success, error, threw, event) ==
    [success |-> success, error |-> error, threw |-> threw, event |-> event]

NoEvent == [listType |-> "", action |-> "", book |-> Undef]

Event(listType, action, book) == [listType |-> listType, action |-> action, book |-> book]

emptyLists == [reading |-> <<>>, toRead |-> <<>>, completed |-> <<>>]

\* the callbacks given to subscribeToListChanges: one that returns and one
\* that throws
Callbacks == {"view", "faulty"}

Throws(callback) == callback = "faulty"

\* the call callback({ listType, action, book, lists: listsCache })
Invocation(callback, event, lists) ==
    [callback |-> callback, listType |-> event.listType, action |-> event.action,
     book |-> event.book, lists |-> lists]

\* the variant without the try around the callback: the first error ends the
\* forEach and gets out
notifySubscribersUnguarded(subs, event, lists) ==
    LET throwers == {i \in 1..Len(subs) : Throws(subs[i])}
        upto == IF throwers = {} THEN Len(subs)
                ELSE CHOOSE i \in throwers : \A j \in throwers : i <= j
    IN  [invoked |-> [i \in 1..upto |-> Invocation(subs[i], event, lists)],
         threw |-> throwers # {}]

\* the variant that tells the subscribers before listsCache is assigned: they
\* are given no lists
notifySubscribersEarly(subs, event, lists) ==
    [invoked |-> [i \in 1..Len(subs) |-> Invocation(subs[i], event, emptyLists)],
     threw |-> FALSE]

\* notifySubscribers(listType, action, book) with lists as listsCache: the
\* calls of callbacks it makes, in the order of the Set, and whether an error
\* gets out of it
notifySubscribers(subs, event, lists) ==
    [invoked |-> [i \in 1..Len(subs) |-> Invocation(subs[i], event, lists)],
     threw |-> FALSE]

\* saveResult.error?.message || 'Failed to save', named by the error code
SaveFailed(saveResult) == ListResult(FALSE, saveResult.code, FALSE, NoEvent)

----------------------------------------------------------------------------
(* readingListService.js: the operations.  Each takes the buckets of         *)
(* listsCache and the substrate and returns the buckets as the call leaves   *)
(* them (the arrays are changed in place, before anything is saved), the     *)
(* store and the result.                                                     *)

\* the loop that removes the book from the lists it is in
removeEverywhere(lists, bookId) ==
    [b \in BucketNames |->
        LET index == findIndex(lists[b], bookId)
        IN  IF index # 0 THEN splice(lists[b], index) ELSE lists[b]]

\* the variant that forgets to drop the progress of a completed book
prepareBookKeepProgress(book, listType) ==
    IF listType = "reading"
    THEN DefaultProp(DefaultProp(book, "progress", Num(0)), "startedDate", today)
    ELSE IF listType = "completed"
    THEN DefaultProp(book, "completedDate", today)
    ELSE DelProp(DelProp(DefaultProp(book, "addedDate", today), "progress"), "completedDate")

\* bookToAdd, prepared for the list type
prepareBook(book, listType) ==
    IF listType = "reading"
    THEN DefaultProp(DefaultProp(book, "progress", Num(0)), "startedDate", today)
    ELSE IF listType = "completed"
    THEN DelProp(DefaultProp(book, "completedDate", today), "progress")
    ELSE DelProp(DelProp(DefaultProp(book, "addedDate", today), "progress"), "completedDate")

addToList(lists, store, sub, t, book, listType) ==
    IF ~Truthy(book) \/ ~Truthy(Get(book, "id"))
    THEN [lists |-> lists, store |-> store,
          res |-> ListResult(FALSE, "Invalid book data", FALSE, NoEvent)]
    ELSE IF toUpperCase(listType) \notin LIST_TYPE_NAMES /\ listType \notin BucketNames
    THEN [lists |-> lists, store |-> store,
          res |-> ListResult(FALSE, "Invalid list type", FALSE, NoEvent)]
    ELSE LET removed == removeEverywhere(lists, String(book.props["id"]))
             bookToAdd == prepareBook(book, listType)
         IN  IF listType \notin BucketNames
             \* lists[listType] is undefined: unshift throws a TypeError
             THEN [lists |-> removed, store |-> store,
                   res |-> ListResult(FALSE, "TypeError", TRUE, NoEvent)]
             ELSE LET added == [removed EXCEPT ![listType] = <<bookToAdd>> \o @]
                      saved == saveData(store, sub, t, READING_LISTS, ListsValue(added), TRUE)
                  IN  IF ~saved.res.success
                      THEN [lists |-> added, store |-> saved.store,
                            res |-> SaveFailed(saved.res)]
                      ELSE [lists |-> added, store |-> saved.store,
                            res |-> ListResult(TRUE, "", FALSE,
                                               Event(listType, "add", bookToAdd))]

RECURSIVE firstBucketWith(_, _, _, _)
\* the position in listsToCheck, from the i-th on, of the first list that
\* holds the id; 0 for none
firstBucketWith(lists, listsToCheck, id, i) ==
    IF i > Len(listsToCheck) THEN 0
    ELSE IF findIndex(lists[listsToCheck[i]], id) # 0 THEN i
    ELSE firstBucketWith(lists, listsToCheck, id, i + 1)

\* the variant that takes out the entry at the front of the bucket instead
removeFromListAtFront(lists, store, sub, t, bookId, listType) ==
    LET id == String(bookId)
        listsToCheck == IF listType # "" THEN <<listType>> ELSE Buckets
    IN  IF listType # "" /\ listType \notin BucketNames
        THEN [lists |-> lists, store |-> store,
              res |-> ListResult(FALSE, "TypeError", TRUE, NoEvent)]
        ELSE LET at == firstBucketWith(lists, listsToCheck, id, 1)
             IN  IF at = 0
                 THEN [lists |-> lists, store |-> store,
                       res |-> ListResult(FALSE, "Book not found in list", FALSE, NoEvent)]
                 ELSE LET removedFrom == listsToCheck[at]
                          removedBook == lists[removedFrom][1]
                          after == [lists EXCEPT ![removedFrom] = splice(@, 1)]
                          saved == saveData(store, sub, t, READING_LISTS,
                                            ListsValue(after), TRUE)
                      IN  IF ~saved.res.success
                          THEN [lists |-> after, store |-> saved.store,
                                res |-> SaveFailed(saved.res)]
                          ELSE [lists |-> after, store |-> saved.store,
                                res |-> ListResult(TRUE, "", FALSE,
                                                   Event(removedFrom, "remove", removedBook))]

\* listType is "" for the default null
removeFromList(lists, store, sub, t, bookId, listType) ==
    LET id == String(bookId)
        listsToCheck == IF listType # "" THEN <<listType>> ELSE Buckets
    IN  IF listType # "" /\ listType \notin BucketNames
        \* lists[type] is undefined: findIndex throws a TypeError
        THEN [lists |-> lists, store |-> store,
              res |-> ListResult(FALSE, "TypeError", TRUE, NoEvent)]
        ELSE LET at == firstBucketWith(lists, listsToCheck, id, 1)
             IN  IF at = 0
                 THEN [lists |-> lists, store |-> store,
                       res |-> ListResult(FALSE, "Book not found in list", FALSE, NoEvent)]
                 ELSE LET removedFrom == listsToCheck[at]
                          index == findIndex(lists[removedFrom], id)
                          removedBook == lists[removedFrom][index]
                          after == [lists EXCEPT ![removedFrom] = splice(@, index)]
                          saved == saveData(store, sub, t, READING_LISTS,
                                            ListsValue(after), TRUE)
                      IN  IF ~saved.res.success
                          THEN [lists |-> after, store |-> saved.store,
                                res |-> SaveFailed(saved.res)]
                          ELSE [lists |-> after, store |-> saved.store,
                                res |-> ListResult(TRUE, "", FALSE,
                                                   Event(removedFrom, "remove", removedBook))]

moveToList(lists, store, sub, t, bookId, fromList, toList) ==
    LET id == String(bookId)
        index == IF fromList \in BucketNames THEN findIndex(lists[fromList], id) ELSE 0
    IN  IF index = 0
        THEN [lists |-> lists, store |-> store,
              res |-> ListResult(FALSE, "Book not found in source list", FALSE, NoEvent)]
        ELSE addToList(lists, store, sub, t, lists[fromList][index], toList)

\* a clamp without the upper end
clampFromBelow(lo, hi, x) == IF x < lo THEN lo ELSE x

\* Math.max(lo, Math.min(hi, x))
clamp(lo, hi, x) == IF x < lo THEN lo ELSE IF x > hi THEN hi ELSE x

\* the variant that leaves a finished book in reading
updateProgressNeverCompletes(lists, store, sub, t, bookId, progress) ==
    LET id == String(bookId)
        index == findIndex(lists.reading, id)
    IN  IF index = 0
        THEN [lists |-> lists, store |-> store,
              res |-> ListResult(FALSE, "Book not found in reading list", FALSE, NoEvent)]
        ELSE LET book == SetProp(lists.reading[index], "progress",
                                 Num(clamp(0, 100, progress)))
                 after == [lists EXCEPT !.reading[index] = book]
                 saved == saveData(store, sub, t, READING_LISTS, ListsValue(after), TRUE)
             IN  IF ~saved.res.success
                 THEN [lists |-> after, store |-> saved.store,
                       res |-> SaveFailed(saved.res)]
                 ELSE [lists |-> after, store |-> saved.store,
                       res |-> ListResult(TRUE, "", FALSE,
                                          Event("reading", "update", book))]

updateProgress(lists, store, sub, t, bookId, progress) ==
    LET id == String(bookId)
        index == findIndex(lists.reading, id)
    IN  IF index = 0
        THEN [lists |-> lists, store |-> store,
              res |-> ListResult(FALSE, "Book not found in reading list", FALSE, NoEvent)]
        ELSE LET book == SetProp(lists.reading[index], "progress",
                                 Num(clamp(0, 100, progress)))
                 after == [lists EXCEPT !.reading[index] = book]
             IN  IF book.props["progress"] = Num(100)
                 THEN addToList(after, store, sub, t, book, "completed")
                 ELSE LET saved == saveData(store, sub, t, READING_LISTS,
                                            ListsValue(after), TRUE)
                      IN  IF ~saved.res.success
                          THEN [lists |-> after, store |-> saved.store,
                                res |-> SaveFailed(saved.res)]
                          ELSE [lists |-> after, store |-> saved.store,
                                res |-> ListResult(TRUE, "", FALSE,
                                                   Event("reading", "update", book))]

updateRating(lists, store, sub, t, bookId, rating) ==
    LET id == String(bookId)
        at == firstBucketWith(lists, Buckets, id, 1)
    IN  IF at = 0
        THEN [lists |-> lists, store |-> store,
              res |-> ListResult(FALSE, "Book not found in any list", FALSE, NoEvent)]
        ELSE LET listType == Buckets[at]
                 index == findIndex(lists[listType], id)
                 updatedBook == SetProp(lists[listType][index], "userRating",
                                        Num(clamp(0, 5, rating)))
                 after == [lists EXCEPT ![listType][index] = updatedBook]
                 saved == saveData(store, sub, t, READING_LISTS, ListsValue(after), TRUE)
             IN  IF ~saved.res.success
                 THEN [lists |-> after, store |-> saved.store,
                       res |-> SaveFailed(saved.res)]
                 ELSE [lists |-> after, store |-> saved.store,
                       res |-> ListResult(TRUE, "", FALSE,
                                          Event(listType, "update", updatedBook))]

\* fresh is TRUE when listsCache is given arrays of its own
clearAllLists(lists, store, sub, t) ==
    LET saved == saveData(store, sub, t, READING_LISTS, ListsValue(emptyLists), TRUE)
    IN  IF ~saved.res.success
        THEN [lists |-> lists, store |-> saved.store, fresh |-> FALSE,
              res |-> SaveFailed(saved.res)]
        ELSE [lists |-> emptyLists, store |-> saved.store, fresh |-> TRUE,
              res |-> ListResult(TRUE, "", FALSE, Event("", "clear", Null))]

\* shared is TRUE when listsCache is given the arrays of defaultReadingLists
resetToDefaults(defaults, store, sub, t) ==
    LET saved == saveData(store, sub, t, READING_LISTS, ListsValue(defaults), TRUE)
    IN  IF ~saved.res.success
        THEN [store |-> saved.store, shared |-> FALSE, res |-> SaveFailed(saved.res)]
        ELSE [store |-> saved.store, shared |-> TRUE,
              res |-> ListResult(TRUE, "", FALSE, Event("", "reset", Null))]

\* result.data[b] || [], the items of the array
bucketOf(data, b) ==
    LET v == Get(data, b) IN IF Truthy(v) /\ IsArray(v) THEN v.items ELSE <<>>

\* shared is TRUE when the buckets of listsCache are the arrays of
\* defaultReadingLists: the default value came back, or the spread was taken
initReadingLists(defaults, store, sub, t) ==
    LET loaded == loadData(store, sub, READING_LISTS, ListsValue(defaults))
        absent == getFullKey(READING_LISTS) \notin DOMAIN loaded.store
    IN  IF loaded.res.success /\ Truthy(loaded.res.data)
        THEN IF absent
             THEN [lists |-> defaults, store |-> loaded.store, shared |-> TRUE]
             ELSE [lists |-> [b \in BucketNames |-> bucketOf(loaded.res.data, b)],
                   store |-> loaded.store, shared |-> FALSE]
        ELSE [lists |-> defaults,
              store |-> saveData(loaded.store, sub, t, READING_LISTS,
                                 ListsValue(defaults), TRUE).store,
              shared |-> TRUE]

----------------------------------------------------------------------------
(* api.js: configuration, rate limiting, caching *)

maxRequests == 10

timeWindow == 1000

retryDelay == 1000

maxRetries == 3

ttl == 5 * 60 * 1000

\* the default timeout of fetchWithTimeout
fetchTimeout == 10000

\* canMakeRequest() at time t: the limiter as it leaves it, and its answer
canMakeRequest(count, lastTime, t) ==
    LET reset == t - lastTime > timeWindow
        count1 == IF reset THEN 0 ELSE count
        lastTime1 == IF reset THEN t ELSE lastTime
    IN  [requestCount |-> count1, lastRequestTime |-> lastTime1,
         allowed |-> count1 < maxRequests]

\* a sleep of half the window
timeToWaitHalf(lastTime, t) == (timeWindow \div 2) - (t - lastTime)

\* waitForRateLimit() at time t: how long it sleeps
timeToWait(lastTime, t) == timeWindow - (t - lastTime)

\* throttledFetch() entered at time t, up to the request or to the sleep of
\* waitForRateLimit: the limiter as it leaves it, whether the request went
\* out, and when the sleep ends
throttledFetch(count, lastTime, t) ==
    LET c == canMakeRequest(count, lastTime, t)
    IN  IF c.allowed
        THEN [requestCount |-> c.requestCount + 1, lastRequestTime |-> c.lastRequestTime,
              sent |-> TRUE, due |-> t]
        ELSE IF timeToWait(c.lastRequestTime, t) > 0
        THEN [requestCount |-> c.requestCount, lastRequestTime |-> c.lastRequestTime,
              sent |-> FALSE, due |-> t + timeToWait(c.lastRequestTime, t)]
        ELSE [requestCount |-> 1, lastRequestTime |-> t, sent |-> TRUE, due |-> t]

\* the rest of throttledFetch when the sleep of waitForRateLimit ends at time t
resumeFetch(t) == [requestCount |-> 1, lastRequestTime |-> t, sent |-> TRUE, due |-> t]

\* a read that finds nothing
getFromCacheNothing(entries, key, t) == [cache |-> entries, data |-> Null]

\* getFromCache(key) at time t: the cache as the read leaves it, and the data
\* or Null
getFromCache(entries, key, t) ==
    IF key \notin DOMAIN entries
    THEN [cache |-> entries, data |-> Null]
    ELSE IF t > entries[key].expiry
    THEN [cache |-> [k \in DOMAIN entries \ {key} |-> entries[k]], data |-> Null]
    ELSE [cache |-> entries, data |-> entries[key].data]

\* an expiry that leaves out the time to live
setCacheNoTtl(entries, key, data, t) ==
    [k \in DOMAIN entries \cup {key} |->
        IF k = key THEN [data |-> data, expiry |-> t] ELSE entries[k]]

\* setCache(key, data) at time t
setCache(entries, key, data, t) ==
    [k \in DOMAIN entries \cup {key} |->
        IF k = key THEN [data |-> data, expiry |-> t + ttl] ELSE entries[k]]

NoEntries == [k \in {} |-> Null]

\* `search:${source}:${query}:${JSON.stringify(searchOptions)}`: the text of
\* the options lists their properties in the order they were given
searchCacheKey(source, query, searchOptions) == <<"search", source, query, searchOptions>>

\* `book:${source}:${bookId}`
bookCacheKey(source, bookId) == <<"book", source, bookId>>

----------------------------------------------------------------------------
(* api.js: errors and retries *)

\* whether an attempt answered this way returns a result
\*   ok: a response that is ok, with the body expected
\*   nolist: a response that is ok, with a JSON body without the list of
\*     results; the secondary backend reads (data.items || []), and the
\*     details functions expect no list
\*   baditem: a response that is ok, with null for an entry of the list
returns(kind, source, outcome) ==
    \/ outcome = "ok"
    \/ outcome = "nolist" /\ (kind = "bookDetails" \/ source = "googlebooks")
    \/ outcome = "baditem" /\ kind = "bookDetails"

\* what an attempt throws, by the way the backend answered
\*   http404, http429, http500: a response that is not ok
\*   network: fetch rejects with a TypeError
\*   timeout: the abort signal fires
\*   notjson: response.json() throws a SyntaxError
\*   nolist: data.docs.map throws a TypeError, data.docs being undefined
\*   baditem: the normalizing function reads a property of null
\* fetch tells whether the message of the error includes 'fetch'
thrown(kind, outcome) ==
    CASE outcome = "network" ->
            [name |-> "TypeError", status |-> 0, code |-> "", fetch |-> TRUE,
             message |-> "Failed to fetch"]
      [] outcome = "timeout" ->
            [name |-> "AbortError", status |-> 0, code |-> "", fetch |-> FALSE,
             message |-> "The operation was aborted."]
      [] outcome = "http404" /\ kind = "bookDetails" ->
            [name |-> "ApiError", status |-> 404, code |-> "NOT_FOUND", fetch |-> FALSE,
             message |-> "Book not found"]
      [] outcome = "http404" ->
            [name |-> "Error", status |-> 404, code |-> "", fetch |-> FALSE,
             message |-> "HTTP 404"]
      [] outcome = "http429" ->
            [name |-> "Error", status |-> 429, code |-> "", fetch |-> FALSE,
             message |-> "HTTP 429"]
      [] outcome = "notjson" ->
            [name |-> "SyntaxError", status |-> 0, code |-> "", fetch |-> FALSE,
             message |-> "Unexpected token"]
      [] outcome \in {"nolist", "baditem"} ->
            [name |-> "TypeError", status |-> 0, code |-> "", fetch |-> FALSE,
             message |-> "Cannot read properties"]
      [] OTHER ->
            [name |-> "Error", status |-> 500, code |-> "", fetch |-> FALSE,
             message |-> "HTTP 500"]

\* new ApiError(message, status, code)
ApiError(message, status, code) ==
    [name |-> "ApiError", message |-> message, status |-> status, code |-> code]

\* the variant that knows no status 429
handleErrorWithout429(error) ==
    IF error.name = "TypeError" /\ error.fetch
    THEN ApiError("Network error. Please check your internet connection.", 0,
                  "NETWORK_ERROR")
    ELSE IF error.name = "AbortError"
    THEN ApiError("Request timed out. Please try again.", 408, "TIMEOUT")
    ELSE IF error.status = 404
    THEN ApiError("Resource not found.", 404, "NOT_FOUND")
    ELSE IF error.name = "ApiError"
    THEN ApiError(error.message, error.status, error.code)
    ELSE ApiError(IF error.message # "" THEN error.message
                  ELSE "An unexpected error occurred.", 500, "UNKNOWN")

\* handleError(error): the ApiError the call rejects with
handleError(error) ==
    IF error.name = "TypeError" /\ error.fetch
    THEN ApiError("Network error. Please check your internet connection.", 0,
                  "NETWORK_ERROR")
    ELSE IF error.name = "AbortError"
    THEN ApiError("Request timed out. Please try again.", 408, "TIMEOUT")
    ELSE IF error.status = 429
    THEN ApiError("Too many requests. Please wait a moment and try again.", 429,
                  "RATE_LIMITED")
    ELSE IF error.status = 404
    THEN ApiError("Resource not found.", 404, "NOT_FOUND")
    ELSE IF error.name = "ApiError"
    THEN ApiError(error.message, error.status, error.code)
    ELSE ApiError(IF error.message # "" THEN error.message
                  ELSE "An unexpected error occurred.", 500, "UNKNOWN")

\* withRetry, after attempt i threw error: "throw" the error at once, "backoff"
\* and try again, or "giveup" after the last attempt
afterFailure(error, i) ==
    IF error.code = "NOT_FOUND" THEN "throw"
    ELSE IF i < maxRetries THEN "backoff"
    ELSE "giveup"

RECURSIVE pow2(_)
\* Math.pow(2, i)
pow2(i) == IF i = 0 THEN 1 ELSE 2 * pow2(i - 1)

\* a backoff that does not grow
backoffDelayFlat(i) == retryDelay

backoffDelay(i) == retryDelay * pow2(i)

\* setLoading(key, value) on state.loading: the flag of the key, then the
\* global flag, true when some value of state.loading is true, its own
\* value from before among them
setLoading(l, key, value) ==
    LET set == [l EXCEPT ![key] = value]
    IN  [set EXCEPT !.global = set.search \/ set.bookDetails \/ set.global]

\* notifySubscribers(): every callback is called with getLoadingState(); what
\* a callback throws is caught and logged
notifyLoading(subs, l) == [i \in 1..Len(subs) |-> [callback |-> subs[i], state |-> l]]

\* a start that leaves the last error standing
enterKeepingError(l, e, kind) == [loading |-> setLoading(l, kind, TRUE), lastError |-> e]

\* searchBooks / getBookDetails after the cache miss:
\* setLoading(kind, true); state.lastError = null
enter(l, e, kind) == [loading |-> setLoading(l, kind, TRUE), lastError |-> Null]

\* the catch and finally blocks of searchBooks / getBookDetails, for a call
\* that settles with result: state.lastError = apiError when it rejects, then
\* setLoading(kind, false)
leave(l, e, kind, result) ==
    [loading |-> setLoading(l, kind, FALSE),
     lastError |-> IF result.status = "rejected"
                   THEN ApiError(result.message, result.httpStatus, result.code)
                   ELSE e]

\* the references a sub-request is made for, without the limit
sliceAll(refs) == refs

\* data.authors.slice(0, 3)
slice(refs) == SubSeq(refs, 1, IF Len(refs) < 3 THEN Len(refs) ELSE 3)

\* what the callback of data.authors.map returns for reference i, by the way
\* its request was answered: authorData.name after a response that is ok,
\* undefined after one that is not, null when something threw
authorName(i, outcome) ==
    CASE outcome = "ok" -> Str("author " \o ToString(i))
      [] outcome \in {"http404", "http429", "http500", "nolist"} -> Undef
      [] OTHER -> Null

\* a sub-request: where it is, how it was answered, what its callback returned
Sub(pc, outcome, name) == [pc |-> pc, outcome |-> outcome, name |-> name]

RECURSIVE fetchAuthors(_, _, _, _, _, _)
\* the callbacks of data.authors.slice(0, 3).map for the first n references,
\* each run up to its first await at time t: a reference without key returns
\* null, the others enter fetchWithTimeout -> throttledFetch one after the
\* other.  `sent` counts the requests of the window that starts at
\* lastRequestTime.
fetchAuthors(count, lastTime, sent, t, refs, n) ==
    IF n = 0
    THEN [requestCount |-> count, lastRequestTime |-> lastTime, issued |-> sent,
          subs |-> <<>>, due |-> t]
    ELSE LET before == fetchAuthors(count, lastTime, sent, t, refs, n - 1)
             f == throttledFetch(before.requestCount, before.lastRequestTime, t)
         IN  IF refs[n] = "nokey"
             THEN [before EXCEPT !.subs = Append(@, Sub("done", "nokey", Null))]
             ELSE [requestCount |-> f.requestCount,
                   lastRequestTime |-> f.lastRequestTime,
                   issued |-> (IF f.lastRequestTime # before.lastRequestTime
                               THEN 0 ELSE before.issued)
                              + (IF f.sent THEN 1 ELSE 0),
                   subs |-> Append(before.subs,
                                   Sub(IF f.sent THEN "fetching" ELSE "limited", "", Undef)),
                   due |-> IF f.sent THEN before.due ELSE f.due]

\* (await Promise.all(authorPromises)).filter(Boolean)
authorsOf(subs) ==
    LET names == [i \in 1..Len(subs) |-> subs[i].name]
    IN  SelectSeq(names, Truthy)

\* normalizeOpenLibraryBookDetails(data, authors), by the body it was made
\* from and the authors
normalizeOpenLibraryBookDetails(body, authors) ==
    Obj(("book" :> body) @@ ("authors" :> Arr(authors)))

\* where a call is whose sub-requests are subs
pcOf(subs) ==
    IF \E i \in 1..Len(subs) : subs[i].pc = "fetching" THEN "fetching"
    ELSE IF \E i \in 1..Len(subs) : subs[i].pc = "limited" THEN "limited"
    ELSE "settled"

----------------------------------------------------------------------------
(* The persistence service as a state machine *)

MaxNow == 1

\* the bare keys the calls use: two with a schema, one without
AppKeys == {SEARCH_HISTORY, USER_PREFERENCES, "version"}

\* the keys other scripts of the same origin use
ForeignKeys == {"other_app_data", TEST_KEY}

\* one entry more than the schema of the search history allows
TooLongHistory == Arr([i \in 1..(searchHistoryMaxItems + 1) |-> Obj("id" :> Num(i))])

\* the values a caller passes for a key: for a key with a schema one that
\* satisfies it and one that violates it
ValuesFor(key) ==
    CASE key = SEARCH_HISTORY ->
            {Arr(<<Obj("id" :> Num(1))>>), TooLongHistory}
      [] key = USER_PREFERENCES ->
            {Obj(("theme" :> Str("dark")) @@ ("data" :> Num(1))),
             Obj("theme" :> Str("neon"))}
      [] OTHER ->
            {Obj("data" :> Str("x")), Undef}

\* texts a user may hand to importData besides a backup
ImportTexts ==
    {Text("not valid json"),
     JSONstringify(Obj((SEARCH_HISTORY :> Arr(<<Obj("id" :> Num(1)), Obj("id" :> Num(2))>>))
                    @@ (USER_PREFERENCES :> Obj("theme" :> Str("neon"))))),
     JSONstringify(Obj("data" :> Obj(USER_PREFERENCES :>
                                       Envelope(Obj("defaultView" :> Str("grid")), 0)))),
     JSONstringify(Obj(SEARCH_HISTORY :> Arr(<<Obj("id" :> Num(0)), Obj("id" :> Num(0))>>))),
     JSONstringify(Obj(SEARCH_HISTORY :> Arr(<<Null>>)))}

\* the defaults a caller passes to loadData for a key
DefaultsFor(key) == IF key = SEARCH_HISTORY THEN {Null, Arr(<<>>)} ELSE {Null}

\* a value an earlier version stored raw that has a property named data
LegacyHistory == Obj(("data" :> Arr(<<>>)) @@ ("query" :> Str("dune")))

\* what may already be stored when the page loads: nothing, values an earlier
\* version stored raw, or a damaged item
InitialStores ==
    {[x \in {} |-> Null],
     (getFullKey(USER_PREFERENCES) :> JSONstringify(Obj("theme" :> Str("light"))))
       @@ (getFullKey(SEARCH_HISTORY) :> JSONstringify(LegacyHistory)),
     getFullKey("version") :> Text("v1")}

NoCall ==
    [op |-> "none", key |-> "", value |-> Undef, validate |-> FALSE, merge |-> FALSE,
     res |-> Success]

Call(op, key, value, validate, merge, res) ==
    [op |-> op, key |-> key, value |-> value, validate |-> validate, merge |-> merge,
     res |-> res]

NoStore == [x \in {} |-> Null]

ForgetBackup == exported' = Undef /\ snapshot' = NoStore /\ trail' = ""

NoListCall == [op |-> "none", res |-> ListResult(TRUE, "", FALSE, NoEvent)]

\* the reading list service is not loaded
ListsIdle ==
    /\ defaultReadingLists = emptyLists
    /\ ownLists = emptyLists
    /\ aliased = FALSE
    /\ lastList = NoListCall
    /\ subscribers = <<>>
    /\ notified = <<>>

NoResult ==
    [status |-> "", name |-> "", message |-> "", code |-> "", httpStatus |-> 0,
     data |-> Null]

NoApiCall ==
    [pc |-> "idle", kind |-> "", source |-> "", key |-> <<>>, stage |-> "", i |-> 0,
     due |-> 0, started |-> 0, fetches |-> 0, waits |-> <<>>, saw404 |-> FALSE,
     lastOutcome |-> "", evicted |-> FALSE, timer |-> FALSE, onlyTimeouts |-> TRUE,
     refs |-> 0, subs |-> <<>>, body |-> Null, raced |-> FALSE, result |-> NoResult]

\* state.loading when the module is loaded
NotLoading == [search |-> FALSE, bookDetails |-> FALSE, global |-> FALSE]

\* nobody watches the loading state, and no call is under way
UiIdle ==
    /\ loading = NotLoading
    /\ lastError = Null
    /\ loadingSubscribers = <<>>
    /\ loadingNotified = <<>>
    /\ parked = <<>>

\* the catalog client has not been used
ApiIdle ==
    /\ UiIdle
    /\ requestCount = 0
    /\ lastRequestTime = 0
    /\ cache = NoEntries
    /\ call = NoApiCall
    /\ calls = 0
    /\ waiting = <<>>
    /\ served = {}
    /\ issued = 0

InitStore ==
    /\ localStorage \in InitialStores
    /\ substrate = "ok"
    /\ now = 0
    /\ last = NoCall
    /\ exported = Undef
    /\ snapshot = NoStore
    /\ trail = ""
    /\ ListsIdle
    /\ ApiIdle

SaveData(key, data, validate) ==
    LET r == saveData(localStorage, substrate, now, key, data, validate)
    IN  /\ localStorage' = r.store
        /\ last' = Call("save", key, data, validate, FALSE, r.res)
        /\ ForgetBackup
        /\ UNCHANGED <<substrate, now, listVars, apiVars>>

LoadData(key, defaultValue) ==
    LET r == loadData(localStorage, substrate, key, defaultValue)
    IN  /\ localStorage' = r.store
        /\ last' = Call("load", key, defaultValue, FALSE, FALSE, r.res)
        /\ ForgetBackup
        /\ UNCHANGED <<substrate, now, listVars, apiVars>>

RemoveData(key) ==
    LET r == removeData(localStorage, substrate, key)
    IN  /\ localStorage' = r.store
        /\ last' = Call("remove", key, Undef, FALSE, FALSE, r.res)
        /\ ForgetBackup
        /\ UNCHANGED <<substrate, now, listVars, apiVars>>

ClearAllData ==
    LET r == clearAllData(localStorage, substrate)
    IN  /\ localStorage' = r.store
        /\ last' = Call("clear", "", Undef, FALSE, FALSE, r.res)
        /\ IF trail = "E" /\ r.res.success
           THEN trail' = "EC" /\ UNCHANGED <<exported, snapshot>>
           ELSE ForgetBackup
        /\ UNCHANGED <<substrate, now, listVars, apiVars>>

ExportData ==
    LET r == exportData(localStorage, substrate, now)
    IN  /\ localStorage' = r.store
        /\ last' = Call("export", "", Undef, FALSE, FALSE, r.res)
        /\ IF r.res.success
           THEN exported' = r.res.data /\ snapshot' = localStorage /\ trail' = "E"
           ELSE ForgetBackup
        /\ UNCHANGED <<substrate, now, listVars, apiVars>>

ImportData(jsonString, merge, validate) ==
    LET r == importData(localStorage, substrate, now, jsonString, merge, validate)
    IN  /\ localStorage' = r.store
        /\ last' = Call("import", "", jsonString, validate, merge, r.res)
        /\ IF trail = "EC" /\ jsonString = exported /\ ~merge /\ validate
           THEN trail' = "ECI" /\ UNCHANGED <<exported, snapshot>>
           ELSE ForgetBackup
        /\ UNCHANGED <<substrate, now, listVars, apiVars>>

\* the user disables or fills the storage, or frees it again
SetSubstrate(mode) ==
    /\ substrate # mode
    /\ substrate' = mode
    /\ last' = NoCall
    /\ ForgetBackup
    /\ UNCHANGED <<localStorage, now, listVars, apiVars>>

\* another script of the origin stores something under a key of its own
ForeignWrite(k) ==
    /\ substrate = "ok"
    /\ localStorage' = Put(localStorage, k, Text("should remain"))
    /\ last' = NoCall
    /\ ForgetBackup
    /\ UNCHANGED <<substrate, now, listVars, apiVars>>

Tick ==
    /\ now < MaxNow
    /\ now' = now + 1
    /\ last' = NoCall
    /\ ForgetBackup
    /\ UNCHANGED <<localStorage, substrate, listVars, apiVars>>

NextStore ==
    \/ \E key \in AppKeys : \E data \in ValuesFor(key) : \E validate \in BOOLEAN :
          SaveData(key, data, validate)
    \/ \E key \in AppKeys : \E defaultValue \in DefaultsFor(key) : LoadData(key, defaultValue)
    \/ \E key \in AppKeys : RemoveData(key)
    \/ ClearAllData
    \/ ExportData
    \/ ImportData(Text("not valid json"), FALSE, TRUE)
    \/ \E mode \in {"ok", "unavailable", "tight"} : SetSubstrate(mode)
    \/ \E k \in ForeignKeys : ForeignWrite(k)
    \/ Tick

\* saving, loading, removing, clearing and a failed import, with the substrate
\* and the other scripts of the origin acting in between
SpecStore == InitStore /\ [][NextStore]_vars

\* how many elements with identifier 0 the stored search history has
ZeroIds(store) ==
    LET history == loadData(store, "ok", SEARCH_HISTORY, Null).res.data
    IN  IF IsArray(history)
        THEN Cardinality({i \in 1..Len(history.items) :
                             ~IdThrows(history.items[i])
                             /\ Get(history.items[i], "id") = Num(0)})
        ELSE 0

\* merging stops once the search history has this many elements with identifier 0
MaxZeroIds == 2

NextBackup ==
    \/ \E key \in AppKeys : \E data \in ValuesFor(key) : \E validate \in BOOLEAN :
          SaveData(key, data, validate)
    \/ ClearAllData
    \/ ExportData
    \/ \E jsonString \in ImportTexts \cup (IF trail # "" THEN {exported} ELSE {}) :
          \E merge \in BOOLEAN : \E validate \in BOOLEAN :
             /\ merge => ZeroIds(localStorage) < MaxZeroIds
             /\ ImportData(jsonString, merge, validate)
    \/ \E mode \in {"ok", "unavailable", "tight"} : SetSubstrate(mode)

\* backups: exporting, clearing and importing
SpecBackup == InitStore /\ [][NextBackup]_vars

GetStorageStats ==
    LET r == getStorageStats(localStorage, substrate)
    IN  /\ localStorage' = r.store
        /\ last' = Call("stats", "", Undef, FALSE, FALSE, r.res)
        /\ ForgetBackup
        /\ UNCHANGED <<substrate, now, listVars, apiVars>>

NextRead ==
    \/ \E key \in AppKeys : \E defaultValue \in DefaultsFor(key) : LoadData(key, defaultValue)
    \/ ExportData
    \/ GetStorageStats
    \/ \E mode \in {"ok", "unavailable", "tight"} : SetSubstrate(mode)
    \/ \E k \in ForeignKeys : ForeignWrite(k)

\* the store read, with the other scripts of the origin writing in between
SpecRead == InitStore /\ [][NextRead]_vars

\* as many entries as the schema of the search history allows
FullHistory == Arr([i \in 1..searchHistoryMaxItems |-> Obj("id" :> Num(i))])

\* the page was used for a while: the search history is full
InitRestore ==
    /\ localStorage = saveData(NoStore, "ok", 0, SEARCH_HISTORY, FullHistory, TRUE).store
    /\ substrate = "ok"
    /\ now = 0
    /\ last = NoCall
    /\ exported = Undef
    /\ snapshot = NoStore
    /\ trail = ""
    /\ ListsIdle
    /\ ApiIdle

NextRestore ==
    \/ ClearAllData
    \/ ExportData
    \/ \E jsonString \in ImportTexts \cup (IF trail # "" THEN {exported} ELSE {}) :
          \E merge \in BOOLEAN : \E validate \in BOOLEAN :
             /\ merge => ZeroIds(localStorage) < MaxZeroIds
             /\ ImportData(jsonString, merge, validate)
    \/ \E mode \in {"ok", "tight"} : SetSubstrate(mode)
    \/ Tick

\* backups imported into a store whose search history is full
SpecRestore == InitRestore /\ [][NextRestore]_vars

----------------------------------------------------------------------------
(* The reading list service as a state machine.  listsCache holds either    *)
(* the arrays of defaultReadingLists (aliased) or arrays of its own          *)
(* (ownLists); an operation changes the arrays listsCache holds.             *)

\* sampleBooks[i], by the fields the service reads
sampleBooks(i) == Obj("id" :> Num(i + 1))

initialDefaults ==
    [reading |-> <<SetProp(sampleBooks(0), "progress", Num(65)),
                   SetProp(sampleBooks(5), "progress", Num(30))>>,
     toRead |-> <<sampleBooks(2), sampleBooks(6), sampleBooks(10)>>,
     completed |-> <<SetProp(sampleBooks(1), "completedDate", Str("2024-01-15")),
                     SetProp(sampleBooks(3), "completedDate", Str("2024-01-02")),
                     SetProp(sampleBooks(7), "completedDate", Str("2023-12-20")),
                     SetProp(sampleBooks(11), "completedDate", Str("2023-12-10"))>>]

\* what localStorage holds when the module is loaded: nothing, or lists an
\* earlier session saved (here without a completed bucket)
InitialListStores ==
    {NoStore,
     getFullKey(READING_LISTS) :>
        [kind |-> "json",
         val |-> Envelope(Obj(("reading" :> Arr(<<Obj("id" :> Str("1"))>>))
                              @@ ("toRead" :> Arr(<<Obj("id" :> Num(3))>>))), 0)]}

\* the books the views hand to addToList
BookInputs ==
    {Obj("id" :> Str("1")),
     Obj("title" :> Str("Dune"))}

ListTypeInputs == {"reading", "toRead", "completed", "READING", "bogus"}

IdInputs == {Num(1), Num(99)}

ProgressInputs == {-5, 150}

RatingInputs == {9}

\* listsCache
listsCache == IF aliased THEN defaultReadingLists ELSE ownLists

\* the last call made of the service and what it returned
ListCall(op, res) == [op |-> op, res |-> res]

InitLists ==
    /\ substrate \in {"ok", "unavailable"}
    /\ \E store \in InitialListStores :
          LET r == initReadingLists(initialDefaults, store, substrate, 0)
          IN  /\ localStorage = r.store
              /\ aliased = r.shared
              /\ ownLists = IF r.shared THEN emptyLists ELSE r.lists
    /\ defaultReadingLists = initialDefaults
    /\ lastList = ListCall("initReadingLists", ListResult(TRUE, "", FALSE, NoEvent))
    /\ subscribers = <<>>
    /\ notified = <<>>
    /\ now = 0
    /\ last = NoCall
    /\ exported = Undef
    /\ snapshot = NoStore
    /\ trail = ""
    /\ ApiIdle

\* the end of an operation that returns `made` with lists as listsCache: after
\* a success the subscribers are told; an error that got out of
\* notifySubscribers would be what the call throws
Returns(made, lists) ==
    LET n == IF made.res.success
             THEN notifySubscribers(subscribers, made.res.event, lists)
             ELSE [invoked |-> <<>>, threw |-> FALSE]
    IN  /\ notified' = n.invoked
        /\ lastList' = IF n.threw
                       THEN [made EXCEPT !.res.success = FALSE, !.res.threw = TRUE,
                                         !.res.error = "Subscriber error"]
                       ELSE made
        /\ UNCHANGED subscribers

\* the arrays listsCache holds become r.lists
Mutate(r, made) ==
    /\ localStorage' = r.store
    /\ IF aliased
       THEN defaultReadingLists' = r.lists /\ UNCHANGED ownLists
       ELSE ownLists' = r.lists /\ UNCHANGED defaultReadingLists
    /\ Returns(made, r.lists)
    /\ UNCHANGED <<aliased, substrate, now, last, exported, snapshot, trail, apiVars>>

AddToList(book, listType) ==
    LET r == addToList(listsCache, localStorage, substrate, now, book, listType)
    IN  Mutate(r, ListCall("addToList", r.res))

RemoveFromList(bookId, listType) ==
    LET r == removeFromList(listsCache, localStorage, substrate, now, bookId, listType)
    IN  Mutate(r, ListCall("removeFromList", r.res))

MoveToList(bookId, fromList, toList) ==
    LET r == moveToList(listsCache, localStorage, substrate, now, bookId, fromList, toList)
    IN  Mutate(r, ListCall("moveToList", r.res))

UpdateProgress(bookId, progress) ==
    LET r == updateProgress(listsCache, localStorage, substrate, now, bookId, progress)
    IN  Mutate(r, ListCall("updateProgress", r.res))

UpdateRating(bookId, rating) ==
    LET r == updateRating(listsCache, localStorage, substrate, now, bookId, rating)
    IN  Mutate(r, ListCall("updateRating", r.res))

ClearAllLists ==
    LET r == clearAllLists(listsCache, localStorage, substrate, now)
    IN  /\ localStorage' = r.store
        /\ aliased' = IF r.fresh THEN FALSE ELSE aliased
        /\ ownLists' = IF r.fresh THEN emptyLists ELSE ownLists
        /\ Returns(ListCall("clearAllLists", r.res), IF r.fresh THEN emptyLists ELSE listsCache)
        /\ UNCHANGED <<defaultReadingLists, substrate, now, last, exported, snapshot, trail,
                       apiVars>>

ResetToDefaults ==
    LET r == resetToDefaults(defaultReadingLists, localStorage, substrate, now)
    IN  /\ localStorage' = r.store
        /\ aliased' = IF r.shared THEN TRUE ELSE aliased
        /\ ownLists' = IF r.shared THEN emptyLists ELSE ownLists
        /\ Returns(ListCall("resetToDefaults", r.res), defaultReadingLists)
        /\ UNCHANGED <<defaultReadingLists, substrate, now, last, exported, snapshot, trail,
                       apiVars>>

\* later on the substrate stops taking writes
Outage(mode) ==
    /\ substrate = "ok"
    /\ now < MaxNow
    /\ now' = now + 1
    /\ substrate' = mode
    /\ lastList' = NoListCall
    /\ notified' = <<>>
    /\ UNCHANGED <<localStorage, last, exported, snapshot, trail,
                   defaultReadingLists, ownLists, aliased, subscribers, apiVars>>

\* the substrate takes writes again
Recover ==
    /\ substrate # "ok"
    /\ substrate' = "ok"
    /\ lastList' = NoListCall
    /\ notified' = <<>>
    /\ UNCHANGED <<localStorage, now, last, exported, snapshot, trail,
                   defaultReadingLists, ownLists, aliased, subscribers, apiVars>>

\* the list types the calls of addToList use here; SpecAdd below goes through
\* all of ListTypeInputs, and updateProgress adds to completed
MixedListTypes == {"reading", "toRead", "READING"}

NextLists ==
    \/ \E book \in BookInputs : \E listType \in MixedListTypes : AddToList(book, listType)
    \/ \E bookId \in IdInputs : \E listType \in {"", "bogus"} :
          RemoveFromList(bookId, listType)
    \/ \E fromList \in {"reading", "bogus"} : MoveToList(Num(1), fromList, "toRead")
    \/ \E progress \in ProgressInputs : UpdateProgress(Num(1), progress)
    \/ \E rating \in RatingInputs : UpdateRating(Str("1"), rating)
    \/ ClearAllLists
    \/ ResetToDefaults
    \/ \E mode \in {"unavailable", "tight"} : Outage(mode)
    \/ Recover

\* the reading lists, with the substrate failing and recovering in between
SpecLists == InitLists /\ [][NextLists]_vars

\* the books addToList is given: those of BookInputs and one that comes out of
\* a list, with the status fields it had there
AddInputs ==
    BookInputs
    \cup {Obj(("id" :> Num(1)) @@ ("progress" :> Num(40))
              @@ ("completedDate" :> Str("2024-01-15")))}

NextAdd ==
    \/ \E book \in AddInputs : \E listType \in ListTypeInputs : AddToList(book, listType)
    \/ \E mode \in {"unavailable", "tight"} : Outage(mode)
    \/ Recover

\* books put on the lists, one call of addToList after the other
SpecAdd == InitLists /\ [][NextAdd]_vars

\* subscribers.add(callback)
add(subs, callback) ==
    IF \E i \in 1..Len(subs) : subs[i] = callback THEN subs ELSE Append(subs, callback)

\* subscribers.delete(callback)
delete(subs, callback) == SelectSeq(subs, LAMBDA c : c # callback)

SubscribeToListChanges(callback) ==
    /\ subscribers' = add(subscribers, callback)
    /\ lastList' = ListCall("subscribeToListChanges", ListResult(TRUE, "", FALSE, NoEvent))
    /\ notified' = <<>>
    /\ UNCHANGED <<storeVars, defaultReadingLists, ownLists, aliased, apiVars>>

\* the function subscribeToListChanges returned is called
Unsubscribe(callback) ==
    /\ subscribers' = delete(subscribers, callback)
    /\ lastList' = ListCall("unsubscribe", ListResult(TRUE, "", FALSE, NoEvent))
    /\ notified' = <<>>
    /\ UNCHANGED <<storeVars, defaultReadingLists, ownLists, aliased, apiVars>>

NextNotify ==
    \/ \E callback \in Callbacks : SubscribeToListChanges(callback)
    \/ \E callback \in Callbacks : Unsubscribe(callback)
    \/ \E listType \in {"toRead", "completed"} : AddToList(Obj("id" :> Str("1")), listType)
    \/ RemoveFromList(Num(1), "")
    \/ \E fromList \in {"toRead", "completed"} : MoveToList(Num(1), fromList, "reading")
    \/ \E progress \in {40, 150} : UpdateProgress(Num(1), progress)
    \/ UpdateRating(Num(1), 9)
    \/ Recover

\* the lists changed while views subscribe and unsubscribe; the substrate may
\* be out of reach at first
SpecNotify == InitLists /\ [][NextNotify]_vars

\* the values the progress slider and the views report
ShelfProgress == {-5, 40, 150}

ShelfRatings == {-1, 9}

ShelfIds == {Num(1), Num(99)}

\* the books taken off the lists: the first of a bucket, one further down, one
\* that is on no list
ShelfRemovals == {Num(1), Num(4), Num(99)}

NextProgress ==
    \/ \E bookId \in ShelfIds : \E progress \in ShelfProgress :
          UpdateProgress(bookId, progress)
    \/ \E fromList \in {"toRead", "completed"} : MoveToList(Num(1), fromList, "reading")
    \/ Outage("tight")
    \/ Recover

\* books read, finished and taken up again; the substrate may be out of reach
\* at first and full later
SpecProgress == InitLists /\ [][NextProgress]_vars

NextShelf ==
    \/ \E bookId \in ShelfIds : \E rating \in ShelfRatings : UpdateRating(bookId, rating)
    \/ \E bookId \in ShelfRemovals : RemoveFromList(bookId, "")
    \/ UpdateProgress(Num(1), 150)
    \/ Outage("tight")
    \/ Recover

\* books rated, finished and taken off the lists; the substrate may be out of
\* reach at first and full later
SpecShelf == InitLists /\ [][NextShelf]_vars

----------------------------------------------------------------------------
(* The rate limiter as a state machine: calls enter throttledFetch, sleep in *)
(* waitForRateLimit when the window is full, and go out when they wake.      *)

Epoch == 2000

MaxBurst == 21

MaxElapsed == 1200

\* the persistence service is not used
StoreIdle ==
    /\ localStorage = NoStore
    /\ substrate = "ok"
    /\ last = NoCall
    /\ exported = Undef
    /\ snapshot = NoStore
    /\ trail = ""

InitLimiter ==
    /\ now = Epoch
    /\ StoreIdle
    /\ ListsIdle
    /\ ApiIdle

\* the requests that went out since the window start the limiter holds was
\* recorded, after a step that leaves the limiter as f
Counted(f) ==
    (IF f.lastRequestTime # lastRequestTime THEN 0 ELSE issued) + (IF f.sent THEN 1 ELSE 0)

\* a call enters throttledFetch
ThrottledFetch ==
    /\ calls < MaxBurst
    /\ LET f == throttledFetch(requestCount, lastRequestTime, now)
           id == calls + 1
       IN  /\ requestCount' = f.requestCount
           /\ lastRequestTime' = f.lastRequestTime
           /\ issued' = Counted(f)
           /\ calls' = id
           /\ IF f.sent
              THEN served' = served \cup {[id |-> id, slept |-> FALSE]} /\ UNCHANGED waiting
              ELSE /\ waiting' = Append(waiting, [id |-> id, due |-> f.due,
                                                  from |-> f.lastRequestTime])
                   /\ UNCHANGED served
    /\ UNCHANGED <<storeVars, listVars, cache, call, uiVars, parked>>

\* the sleep of the call that has waited longest ends
Wake ==
    /\ waiting # <<>>
    /\ Head(waiting).due <= now
    /\ LET f == resumeFetch(now)
       IN  /\ requestCount' = f.requestCount
           /\ lastRequestTime' = f.lastRequestTime
           /\ issued' = Counted(f)
           /\ served' = served \cup {[id |-> Head(waiting).id, slept |-> TRUE]}
           /\ waiting' = Tail(waiting)
    /\ UNCHANGED <<storeVars, listVars, cache, call, calls, uiVars, parked>>

\* time passes; a sleeping call is never kept from its wake-up time
Advance(d) ==
    /\ \/ now + d <= Epoch + MaxElapsed
       \/ waiting # <<>> /\ Head(waiting).due > now
    /\ now' = now + d
    /\ UNCHANGED <<localStorage, substrate, last, exported, snapshot, trail,
                   listVars, apiVars>>

Elapse == \E d \in {timeWindow \div 2, timeWindow + 1} : Advance(d)

NextLimiter ==
    \/ ThrottledFetch
    \/ Wake
    \/ Elapse

SpecLimiter == InitLimiter /\ [][NextLimiter]_vars

\* time does pass and timers do fire
FairSpecLimiter == SpecLimiter /\ WF_vars(Elapse) /\ WF_vars(Wake)

----------------------------------------------------------------------------
(* The catalog client as a state machine: one call at a time, from the      *)
(* cache read through the attempts of withRetry to the result.               *)

MaxCalls == 1

MaxSearches == 3

\* the ways a backend answers a request
Outcomes ==
    {"ok", "http404", "http429", "http500", "network", "timeout", "notjson", "nolist",
     "baditem"}

Sources == {"openlibrary", "googlebooks"}

\* the same two options, given in either order
OptionInputs ==
    {<<<<"page", 1>>, <<"limit", 5>>>>,
     <<<<"limit", 5>>, <<"page", 1>>>>}

\* how many author references a work of the primary backend carries
AuthorCounts == {0, 1}

InitApi ==
    /\ now = Epoch
    /\ StoreIdle
    /\ ListsIdle
    /\ ApiIdle

\* how long the clock runs while requests are out
MaxLag == 200

Resolved(data) == [NoResult EXCEPT !.status = "resolved", !.data = data]

\* the call rejects with handleError(error)
Rejected(error) ==
    [status |-> "rejected", name |-> handleError(error).name,
     message |-> handleError(error).message, code |-> handleError(error).code,
     httpStatus |-> handleError(error).status, data |-> Null]

Between == call.pc \in {"idle", "settled"}

\* the step calls neither setLoading nor touches state.lastError
Quiet ==
    /\ loadingNotified' = <<>>
    /\ UNCHANGED <<loading, lastError, loadingSubscribers>>

\* fetchWithTimeout -> throttledFetch at time t, for the call as c
Fetch(c, t) ==
    LET f == throttledFetch(requestCount, lastRequestTime, t)
    IN  /\ requestCount' = f.requestCount
        /\ lastRequestTime' = f.lastRequestTime
        /\ issued' = Counted(f)
        /\ call' = [c EXCEPT !.pc = IF f.sent THEN "fetching" ELSE "limited",
                             !.due = f.due,
                             !.started = t,
                             !.timer = TRUE,
                             !.fetches = IF f.sent /\ c.stage = "primary"
                                         THEN @ + 1 ELSE @]

\* the calls under way elsewhere, told that a call with the key has begun
Rivals(key) ==
    [i \in 1..Len(parked) |->
        IF parked[i].key = key THEN [parked[i] EXCEPT !.raced = TRUE] ELSE parked[i]]

\* searchBooks / getBookDetails up to the first await: the cache read, and
\* on a miss the first attempt
Begin(kind, source, key) ==
    /\ Between
    /\ calls' = calls + 1
    /\ LET r == getFromCache(cache, key, now)
           c == [NoApiCall EXCEPT !.kind = kind, !.source = source, !.key = key,
                                  !.stage = "primary",
                                  !.evicted = key \in DOMAIN cache /\ r.data = Null]
       IN  /\ cache' = r.cache
           /\ IF Truthy(r.data)
              THEN /\ call' = [c EXCEPT !.pc = "settled", !.result = Resolved(r.data)]
                   /\ Quiet
                   /\ UNCHANGED <<requestCount, lastRequestTime, issued, parked>>
              ELSE /\ Fetch([c EXCEPT !.raced = \E i \in 1..Len(parked) :
                                                  parked[i].key = key], now)
                   /\ loading' = enter(loading, lastError, kind).loading
                   /\ lastError' = enter(loading, lastError, kind).lastError
                   /\ loadingNotified' = notifyLoading(loadingSubscribers, loading')
                   /\ parked' = Rivals(key)
                   /\ UNCHANGED loadingSubscribers
    /\ UNCHANGED <<storeVars, listVars, waiting, served>>

SearchBooks(source, searchOptions) ==
    Begin("search", source, searchCacheKey(source, "dune", searchOptions))

GetBookDetails(source) == Begin("bookDetails", source, bookCacheKey(source, "OL45883W"))

\* the call settles with result at time t: a result that resolves is cached,
\* an error is kept as the last error, and the loading flag is taken back
Finish(c, result, t) ==
    /\ call' = [c EXCEPT !.pc = "settled", !.result = result]
    /\ cache' = IF result.status = "resolved"
                THEN setCache(cache, c.key, result.data, t)
                ELSE cache
    /\ loading' = leave(loading, lastError, c.kind, result).loading
    /\ lastError' = leave(loading, lastError, c.kind, result).lastError
    /\ loadingNotified' = notifyLoading(loadingSubscribers, loading')
    /\ UNCHANGED loadingSubscribers

Settle(c, result, t) ==
    /\ Finish(c, result, t)
    /\ UNCHANGED <<requestCount, lastRequestTime, issued>>

\* a timer that is set when the request goes out
AnswerTimeFromSend(c, outcome) == IF outcome = "timeout" THEN c.due + fetchTimeout ELSE now

\* when fetchWithTimeout, entered at c.started, settles: at once, or when the
\* timer set on entry fires and aborts the request
AnswerTime(c, outcome) == IF outcome = "timeout" THEN c.started + fetchTimeout ELSE now

\* the call after fetchWithTimeout has settled: clearTimeout(timeoutId) in
\* either branch
fetchWithTimeout(c, outcome) == [c EXCEPT !.timer = FALSE]

\* the references of a work that all carry a key
Keyed(n) == [i \in 1..n |-> "key"]

\* what the call resolves with, made from the body of the response
Normalized(c, body, subs) ==
    IF c.kind = "bookDetails" /\ c.source = "openlibrary"
    THEN normalizeOpenLibraryBookDetails(body, authorsOf(subs))
    ELSE body

\* getOpenLibraryBookDetails after the response of the work has come at time
\* t with the author references refs: the sub-requests go out, and with none
\* to wait for the call resolves
FetchAuthors(c, t, body, refs) ==
    LET a == fetchAuthors(requestCount, lastRequestTime, issued, t, slice(refs),
                          Len(slice(refs)))
        c0 == [c EXCEPT !.subs = a.subs, !.refs = Len(refs), !.body = body]
        c1 == [c0 EXCEPT !.stage = "author", !.started = t, !.due = a.due]
    IN  /\ requestCount' = a.requestCount
        /\ lastRequestTime' = a.lastRequestTime
        /\ issued' = a.issued
        /\ IF pcOf(a.subs) = "settled"
           THEN Finish(c0, Resolved(Normalized(c, body, a.subs)), t)
           ELSE /\ call' = [c1 EXCEPT !.pc = pcOf(a.subs), !.timer = TRUE]
                /\ Quiet
                /\ UNCHANGED cache

\* the backend answers the primary request of attempt i in the way given,
\* with the body and, for a work, the author references given
Answer(outcome, body, refs) ==
    /\ call.pc = "fetching"
    /\ call.stage = "primary"
    /\ LET t == AnswerTime(call, outcome)
           c == [fetchWithTimeout(call, outcome) EXCEPT
                    !.lastOutcome = outcome,
                    !.saw404 = @ \/ outcome = "http404",
                    !.onlyTimeouts = @ /\ outcome = "timeout"]
           error == thrown(call.kind, outcome)
       IN  /\ now' = t
           /\ IF returns(call.kind, call.source, outcome)
              THEN IF call.kind = "bookDetails" /\ call.source = "openlibrary"
                      /\ Len(refs) > 0
                   THEN FetchAuthors(c, t, body, refs)
                   ELSE Settle(c, Resolved(Normalized(c, body, <<>>)), t)
              ELSE IF afterFailure(error, call.i) = "backoff"
              THEN /\ call' = [c EXCEPT !.pc = "backoff",
                                        !.due = t + backoffDelay(call.i),
                                        !.waits = Append(@, backoffDelay(call.i))]
                   /\ Quiet
                   /\ UNCHANGED <<cache, requestCount, lastRequestTime, issued>>
              ELSE Settle(c, Rejected(error), t)
    /\ UNCHANGED <<localStorage, substrate, last, exported, snapshot, trail,
                   listVars, calls, waiting, served, parked>>

Respond(outcome) ==
    \E authors \in AuthorCounts : Answer(outcome, Str("fetched"), Keyed(authors))

\* the backend answers the request for author i, or the request is aborted;
\* timers fire in the order they are due, and a request is aborted when its
\* timer fires
RespondAuthor(i, outcome) ==
    /\ call.pc = "fetching"
    /\ call.stage = "author"
    /\ i \in 1..Len(call.subs)
    /\ call.subs[i].pc = "fetching"
    /\ IF outcome = "timeout"
       THEN \A j \in 1..Len(call.subs) : call.subs[j].pc # "limited"
       ELSE now < call.started + fetchTimeout
    /\ LET t == AnswerTime(call, outcome)
           subs == [call.subs EXCEPT ![i] = Sub("done", outcome, authorName(i, outcome))]
           c == [call EXCEPT !.subs = subs]
       IN  /\ now' = t
           /\ IF pcOf(subs) = "settled"
              THEN Settle(fetchWithTimeout(c, outcome),
                          Resolved(Normalized(c, call.body, subs)), t)
              ELSE /\ call' = [c EXCEPT !.pc = pcOf(subs)]
                   /\ Quiet
                   /\ UNCHANGED <<cache, requestCount, lastRequestTime, issued>>
    /\ UNCHANGED <<localStorage, substrate, last, exported, snapshot, trail,
                   listVars, calls, waiting, served, parked>>

\* the first sub-request that sleeps goes out
wakeFirst(subs) ==
    IF \E i \in 1..Len(subs) : subs[i].pc = "limited"
    THEN LET first == CHOOSE i \in 1..Len(subs) :
                         /\ subs[i].pc = "limited"
                         /\ \A j \in 1..(i - 1) : subs[j].pc # "limited"
         IN  [subs EXCEPT ![first].pc = "fetching"]
    ELSE subs

\* the timer the call sleeps on fires: the backoff of withRetry, or a sleep
\* of waitForRateLimit
WakeCall ==
    /\ \/ call.pc \in {"backoff", "limited"}
       \/ call.pc = "fetching" /\ wakeFirst(call.subs) # call.subs
    /\ now' = call.due
    /\ IF call.pc = "backoff"
       THEN Fetch([call EXCEPT !.i = @ + 1], call.due)
       ELSE LET f == resumeFetch(call.due)
            IN  /\ requestCount' = f.requestCount
                /\ lastRequestTime' = f.lastRequestTime
                /\ issued' = Counted(f)
                /\ call' = [call EXCEPT !.pc = "fetching",
                                        !.subs = wakeFirst(@),
                                        !.fetches = IF call.stage = "primary"
                                                    THEN @ + 1 ELSE @]
    /\ Quiet
    /\ UNCHANGED <<localStorage, substrate, last, exported, snapshot, trail,
                   listVars, cache, calls, waiting, served, parked>>

\* time passes between two calls
Pass(d) ==
    /\ call.pc = "settled"
    /\ parked = <<>>
    /\ now' = now + d
    /\ call' = NoApiCall
    /\ Quiet
    /\ UNCHANGED <<localStorage, substrate, last, exported, snapshot, trail,
                   listVars, requestCount, lastRequestTime, cache, calls,
                   waiting, served, issued, parked>>

ClearCache ==
    /\ Between
    /\ cache # NoEntries
    /\ cache' = NoEntries
    /\ Quiet
    /\ UNCHANGED <<storeVars, listVars, requestCount, lastRequestTime, call, calls,
                   waiting, served, issued, parked>>

\* subscribeToLoadingState(callback)
SubscribeToLoadingState(callback) ==
    /\ loadingSubscribers' = add(loadingSubscribers, callback)
    /\ loadingNotified' = <<>>
    /\ UNCHANGED <<storeVars, listVars, requestCount, lastRequestTime, cache, call, calls,
                   waiting, served, issued, loading, lastError, parked>>

\* the caller of the call under way awaits it; another caller gets its turn
Park ==
    /\ call.pc = "fetching"
    /\ parked' = Append(parked, call)
    /\ call' = NoApiCall
    /\ Quiet
    /\ UNCHANGED <<storeVars, listVars, requestCount, lastRequestTime, cache, calls,
                   waiting, served, issued>>

\* the backend turns to request i of those that are out
Resume(i) ==
    /\ Between
    /\ i \in 1..Len(parked)
    /\ call' = parked[i]
    /\ parked' = [j \in 1..(Len(parked) - 1) |-> IF j < i THEN parked[j] ELSE parked[j + 1]]
    /\ Quiet
    /\ UNCHANGED <<storeVars, listVars, requestCount, lastRequestTime, cache, calls,
                   waiting, served, issued>>

\* time passes while requests are out, none as long as its timer
Delay(d) ==
    /\ call.pc = "fetching" \/ parked # <<>>
    /\ now + d <= Epoch + MaxLag
    /\ call.pc = "fetching" => now + d < call.started + fetchTimeout
    /\ \A i \in 1..Len(parked) : now + d < parked[i].started + fetchTimeout
    /\ now' = now + d
    /\ Quiet
    /\ UNCHANGED <<localStorage, substrate, last, exported, snapshot, trail,
                   listVars, requestCount, lastRequestTime, cache, call, calls,
                   waiting, served, issued, parked>>

NextApi ==
    \/ /\ calls < MaxCalls
       /\ \E source \in Sources : \E searchOptions \in OptionInputs :
             SearchBooks(source, searchOptions)
    \/ /\ calls < MaxCalls
       /\ \E source \in Sources : GetBookDetails(source)
    \/ \E outcome \in Outcomes : Respond(outcome)
    \/ \E i \in 1..3 : \E outcome \in Outcomes : RespondAuthor(i, outcome)
    \/ WakeCall
    \/ \E d \in {ttl, ttl + 1} : Pass(d)
    \/ ClearCache

\* single calls, against backends that answer in every way
SpecApi == InitApi /\ [][NextApi]_vars

NextCache ==
    \/ /\ calls < MaxSearches
       /\ \E searchOptions \in OptionInputs : SearchBooks("openlibrary", searchOptions)
    \/ \E outcome \in {"ok", "http500"} : Respond(outcome)
    \/ WakeCall
    \/ \E d \in {ttl, ttl + 1} : Pass(d)
    \/ ClearCache

\* searches one after the other, with time passing in between
SpecCache == InitApi /\ [][NextCache]_vars

MaxRepeats == 2

\* how long ago the window the limiter holds began
WindowAge == 400

\* the client is taken up when the limiter is fresh, or when other traffic has
\* filled the window that began WindowAge ago
InitSession ==
    /\ now = Epoch
    /\ StoreIdle
    /\ ListsIdle
    /\ UiIdle
    /\ cache = NoEntries
    /\ call = NoApiCall
    /\ calls = 0
    /\ waiting = <<>>
    /\ served = {}
    /\ \/ requestCount = 0 /\ lastRequestTime = 0 /\ issued = 0
       \/ /\ requestCount = maxRequests
          /\ lastRequestTime = Epoch - WindowAge
          /\ issued = maxRequests

NextSession ==
    \/ /\ calls < MaxRepeats
       /\ SearchBooks("openlibrary", <<<<"page", 1>>, <<"limit", 5>>>>)
    \/ /\ calls < MaxRepeats
       /\ GetBookDetails("openlibrary")
    \/ \E outcome \in {"ok", "timeout"} : Respond(outcome)
    \/ \E i \in 1..3 : \E outcome \in {"ok", "timeout"} : RespondAuthor(i, outcome)
    \/ WakeCall
    \/ \E d \in {ttl, ttl + 1} : Pass(d)
    \/ ClearCache

\* calls repeated against a backend that answers or hangs
SpecSession == InitSession /\ [][NextSession]_vars

MaxOverlap == 2

\* the bodies the backend answers a request with
Editions == {Str("fetched"), Str("fetched anew")}

NextOverlap ==
    \/ \E callback \in Callbacks : SubscribeToLoadingState(callback)
    \/ /\ calls < MaxOverlap
       /\ SearchBooks("openlibrary", <<<<"page", 1>>, <<"limit", 5>>>>)
    \/ /\ calls < MaxOverlap
       /\ GetBookDetails("googlebooks")
    \/ \E body \in Editions : Answer("ok", body, <<>>)
    \/ /\ call.kind = "bookDetails"
       /\ Answer("http404", Null, <<>>)
    \/ Park
    \/ \E i \in 1..MaxOverlap : Resume(i)
    \/ Delay(MaxLag \div 2)

\* calls made while others are under way, the views watching the loading
\* state
SpecOverlap == InitApi /\ [][NextOverlap]_vars

\* how many author references a work carries at most
MaxAuthors == 4

\* the author references of a work: all with a key, or the first without
RefInputs ==
    {Keyed(n) : n \in 0..MaxAuthors} \cup {<<"nokey">>, <<"nokey", "key">>}

\* the ways the backend answers the request for an author
AuthorOutcomes == {"ok", "http404", "network", "timeout"}

\* the client is taken up when the limiter is fresh, or when other traffic has
\* nearly filled the window that began WindowAge ago
InitAuthors ==
    /\ now = Epoch
    /\ StoreIdle
    /\ ListsIdle
    /\ UiIdle
    /\ cache = NoEntries
    /\ call = NoApiCall
    /\ calls = 0
    /\ waiting = <<>>
    /\ served = {}
    /\ \/ requestCount = 0 /\ lastRequestTime = 0 /\ issued = 0
       \/ /\ requestCount = maxRequests - 2
          /\ lastRequestTime = Epoch - WindowAge
          /\ issued = maxRequests - 2

NextAuthors ==
    \/ /\ calls < MaxCalls
       /\ GetBookDetails("openlibrary")
    \/ \E refs \in RefInputs : \E outcome \in {"ok", "http500"} :
          Answer(outcome, Str("fetched"), refs)
    \/ \E i \in 1..MaxAuthors : \E outcome \in AuthorOutcomes : RespondAuthor(i, outcome)
    \/ WakeCall

\* the details of a work fetched, with its authors
SpecAuthors == InitAuthors /\ [][NextAuthors]_vars

\* the backend does answer and timers do fire
FairSpecApi ==
    /\ SpecApi
    /\ WF_vars(\E outcome \in Outcomes : Respond(outcome))
    /\ WF_vars(\E i \in 1..3 : \E outcome \in Outcomes : RespondAuthor(i, outcome))
    /\ WF_vars(WakeCall)

----------------------------------------------------------------------------
(* Claims about the persistence service *)

\* key k holds the same string, or is absent, in both stores
SameEntry(s, t, k) ==
    /\ k \in DOMAIN s <=> k \in DOMAIN t
    /\ k \in DOMAIN s => s[k] = t[k]

\* the call recorded in `c` is a validating save of a value that violates the
\* schema registered for its key
InvalidSave(c) ==
    /\ c.op = "save"
    /\ c.validate
    /\ HasSchema(c.key)
    /\ ~validateData(c.value, schemas(c.key))

\* C1, as stated: saving a value that violates the schema of its key, with
\* validation on, always fails with VALIDATION_FAILED and leaves what is
\* stored under the key as it was.
C1_AlwaysValidationFailed ==
    [][InvalidSave(last') =>
          /\ ~last'.res.success
          /\ last'.res.code = "VALIDATION_FAILED"
          /\ SameEntry(localStorage, localStorage', getFullKey(last'.key))]_vars

\* C1, amended: such a save always fails and leaves what is stored under the
\* key as it was; the code is VALIDATION_FAILED when the substrate is
\* reachable and STORAGE_UNAVAILABLE when it is not.
C1_InvalidSaveRejected ==
    [][InvalidSave(last') =>
          /\ ~last'.res.success
          /\ last'.res.code = IF isStorageAvailable(substrate)
                              THEN "VALIDATION_FAILED" ELSE "STORAGE_UNAVAILABLE"
          /\ SameEntry(localStorage, localStorage', getFullKey(last'.key))]_vars

\* an invalid save has been rejected for a key that holds an earlier value
C1_Witness ==
    /\ InvalidSave(last)
    /\ last.res.code = "VALIDATION_FAILED"
    /\ getFullKey(last.key) \in DOMAIN localStorage

\* C8: a successful saveData(k, v) of a JSON-serializable v followed
\* immediately by loadData(k) returns success with data equal to v, also when
\* v is an object with a property named data.
C8_SaveLoadRoundTrip ==
    [][(/\ last.op = "save"
        /\ last.res.success
        /\ JsonSerializable(last.value)
        /\ last'.op = "load"
        /\ last'.key = last.key)
       => (last'.res.success /\ last'.res.data = last.value)]_vars

\* a load has returned an object with a data property out of the envelope
\* saveData wrote around it
C8_Witness ==
    /\ last.op = "load"
    /\ last.res.success
    /\ HasProp(last.res.data, "data")
    /\ getFullKey(last.key) \in DOMAIN localStorage
    /\ \E t \in 0..MaxNow :
          localStorage[getFullKey(last.key)] = JSONstringify(Envelope(last.res.data, t))

\* the bare keys a backup of store s holds
ExportedKeys(s) == {stripPrefix(k) : k \in {x \in DOMAIN s : startsWithPrefix(x)}}

\* the value stored under the bare key satisfies the schema of the key, if any
StoredValid(s, key) ==
    HasSchema(key) => validateData(loadData(s, "ok", key, Null).res.data, schemas(key))

\* C9: after exportData(), clearAllData() and importData(backup) with the
\* default options, loadData(k) returns for every exported key k the value it
\* returned before the export, whatever the bare key is called.  (Stated for
\* the keys whose stored value satisfies the schema of the key: the import
\* validates, and a value that was saved unvalidated may not come back.)
C9_BackupRoundTrip ==
    trail = "ECI" =>
        \A key \in ExportedKeys(snapshot) :
            StoredValid(snapshot, key) =>
                loadData(localStorage, substrate, key, Null).res.data
                    = loadData(snapshot, substrate, key, Null).res.data

\* C10: clearAllData() leaves every key that does not start with the prefix,
\* and its value, as it was, whatever the key is called, and a successful
\* call leaves no key that starts with the prefix.
C10_ClearTouchesOnlyAppKeys ==
    [][last'.op = "clear" =>
          /\ \A k \in DOMAIN localStorage :
                ~startsWithPrefix(k) => SameEntry(localStorage, localStorage', k)
          /\ last'.res.success =>
                \A k \in DOMAIN localStorage' : ~startsWithPrefix(k)]_vars

\* C11, for the calls the persistence service has been given: a call made
\* while the substrate is unreachable returns a failed result whose code is
\* STORAGE_UNAVAILABLE.
C11_UnavailableSurfaced ==
    (last.op # "none" /\ ~isStorageAvailable(substrate)) =>
        (~last.res.success /\ last.res.code = "STORAGE_UNAVAILABLE")

\* the call recorded in `c` is a save whose value passes validation, so that
\* the record is handed to the substrate
WritingSave(c) == c.op = "save" /\ ~InvalidSave(c)

\* C12: when the substrate is reachable and raises its quota-exceeded
\* condition on the write of the record, saveData returns a failed result
\* with code QUOTA_EXCEEDED and what is stored under the key is unchanged.
C12_QuotaReported ==
    [][(WritingSave(last') /\ QuotaThrows(substrate)) =>
          /\ ~last'.res.success
          /\ last'.res.code = "QUOTA_EXCEEDED"
          /\ SameEntry(localStorage, localStorage', getFullKey(last'.key))]_vars

\* a save has hit the quota for a key that holds an earlier value
C12_Witness ==
    /\ WritingSave(last)
    /\ last.res.code = "QUOTA_EXCEEDED"
    /\ getFullKey(last.key) \in DOMAIN localStorage

\* the last call is a loadData(k, d) with nothing stored under k
AbsentLoad == last.op = "load" /\ getFullKey(last.key) \notin DOMAIN localStorage

\* C13, as stated: loadData(k, d) with nothing stored under k returns success
\* with data d, whether k was never written or was removed again.
C13_AbsentLoadsDefault ==
    AbsentLoad => (last.res.success /\ last.res.data = last.value)

\* C13, amended: loadData(k, d) with nothing stored under k returns data d;
\* with the substrate reachable the result is a success, with the substrate
\* unreachable it is a failure with code STORAGE_UNAVAILABLE.
C13_AbsentLoadsDefaultWhenReachable ==
    AbsentLoad =>
        /\ last.res.data = last.value
        /\ IF isStorageAvailable(substrate)
           THEN last.res.success
           ELSE ~last.res.success /\ last.res.code = "STORAGE_UNAVAILABLE"

\* a load of an absent key has returned the default the caller supplied
C13_Witness ==
    /\ AbsentLoad
    /\ last.res.success
    /\ last.value # Null
    /\ last.res.data = last.value

\* C15, with the substrate reachable: importData of a text that is not JSON
\* returns a failed result with code PARSE_ERROR and leaves every key of the
\* substrate, and its value, as it was.
C15_InvalidJsonRejected ==
    [][(last'.op = "import" /\ ParseThrows(last'.value) /\ isStorageAvailable(substrate)) =>
          /\ ~last'.res.success
          /\ last'.res.code = "PARSE_ERROR"
          /\ localStorage' = localStorage]_vars

\* the last call is a loadData(k) of a stored item that parses, made with the
\* substrate reachable
StoredLoad ==
    /\ last.op = "load"
    /\ isStorageAvailable(substrate)
    /\ getFullKey(last.key) \in DOMAIN localStorage
    /\ ~ParseThrows(localStorage[getFullKey(last.key)])

\* what JSON.parse gives for the item that load read
LoadedItem == JSONparse(localStorage[getFullKey(last.key)])

\* v is a record as saveData writes it
IsEnvelope(v) == v.t = "object" /\ DOMAIN v.props = {"data", "timestamp", "version"}

\* C18, as stated: loadData returns the data and the timestamp of a stored
\* envelope, and returns a value stored raw whole, objects included.
C18_BothFormatsWhole ==
    StoredLoad =>
        /\ last.res.success
        /\ IF IsEnvelope(LoadedItem)
           THEN /\ last.res.data = LoadedItem.props["data"]
                /\ last.res.timestamp = LoadedItem.props["timestamp"]
           ELSE last.res.data = LoadedItem

\* C18, amended: loadData returns the data and the timestamp of a stored
\* envelope; it returns a value stored raw whole unless that value is an
\* object with a property named data, and then it returns that property.
C18_BothFormatsByDataProperty ==
    StoredLoad =>
        /\ last.res.success
        /\ IF HasProp(LoadedItem, "data")
           THEN /\ last.res.data = LoadedItem.props["data"]
                /\ last.res.timestamp = Get(LoadedItem, "timestamp")
           ELSE last.res.data = LoadedItem

\* a load has returned, whole, an object that was stored raw
C18_Witness ==
    /\ StoredLoad
    /\ LoadedItem.t = "object"
    /\ ~HasProp(LoadedItem, "data")
    /\ last.res.data = LoadedItem

\* the object whose entries importData walks through, for a text that parses
DataToImport(text) ==
    LET importObject == JSONparse(text)
    IN  IF Truthy(Get(importObject, "data")) THEN importObject.props["data"] ELSE importObject

\* the text is JSON for an object that importData accepts as an import
WellFormed(text) ==
    /\ ~ParseThrows(text)
    /\ Truthy(JSONparse(text))
    /\ TypeOf(JSONparse(text)) = "object"
    /\ TypeOf(DataToImport(text)) = "object"
    /\ DataToImport(text).t # "null"

\* the candidate keys of an import: the entries that are not metadata
Candidates(text) == DOMAIN Entries(DataToImport(text)) \ METADATA_FIELDS

\* the incoming value of a candidate key, out of its envelope if it has one
Incoming(text, key) == Unwrap(Entries(DataToImport(text))[key])

\* the candidate keys whose incoming value violates the schema of the key
Failing(text, validate) ==
    {key \in Candidates(text) :
        validate /\ HasSchema(key) /\ ~validateData(Incoming(text, key), schemas(key))}

\* what loadData(key) gives for store s with the substrate working
Stored(s, key) == loadData(s, "ok", key, Null).res.data

\* the call recorded in `c` is an import of a well-formed text
Import(c) == c.op = "import" /\ WellFormed(c.value)

\* C14, for a well-formed text and a reachable substrate: importData fails
\* with VALIDATION_FAILED exactly when a candidate key failed validation and
\* none was imported; otherwise it succeeds, `imported` holds the candidate
\* keys that passed, `warnings` has one entry per failing key; a failing key
\* is never written.
C14_ImportOutcome ==
    [][(Import(last') /\ isStorageAvailable(substrate)) =>
          LET failing == Failing(last'.value, last'.validate)
              passing == Candidates(last'.value) \ failing
          IN  /\ IF failing # {} /\ passing = {}
                 THEN ~last'.res.success /\ last'.res.code = "VALIDATION_FAILED"
                 ELSE /\ last'.res.success
                      /\ last'.res.imported = passing
                      /\ last'.res.warnings = failing
              /\ \A key \in failing :
                    SameEntry(localStorage, localStorage', getFullKey(key))]_vars

\* C16: after an importData with merge=true that lists a key as imported,
\* when the existing and the incoming value of the key are both plain
\* objects, the stored value has every property of both, the incoming value
\* where both have the property.
C16_MergeObjects ==
    [][(Import(last') /\ last'.merge /\ last'.res.success) =>
          \A key \in last'.res.imported :
             LET old == Stored(localStorage, key)
                 inc == Incoming(last'.value, key)
             IN  (old.t = "object" /\ inc.t = "object") =>
                    Stored(localStorage', key) = Spread(old, inc)]_vars

\* the identifier an element exposes, undefined when it exposes none
IdOf(e) == IF e.t = "object" THEN Get(e, "id") ELSE Undef

RECURSIVE MergedById(_, _, _)
\* the existing elements followed by the first n incoming ones, an incoming
\* element taking the place of the element that has its identifier
MergedById(existing, incoming, n) ==
    IF n = 0 THEN existing
    ELSE LET before == MergedById(existing, incoming, n - 1)
             item == incoming[n]
             hits == {i \in 1..Len(before) :
                         IdOf(item) # Undef /\ IdOf(before[i]) = IdOf(item)}
         IN  IF hits = {} THEN Append(before, item)
             ELSE [before EXCEPT ![CHOOSE i \in hits : \A j \in hits : i <= j] = item]

\* C17, with the substrate taking every write: after an importData with
\* merge=true of a well-formed text, for a candidate key that passes
\* validation and whose existing and incoming values are both sequences, the
\* stored value is the existing elements followed by the incoming ones, an
\* incoming element replacing in place the element that has its identifier,
\* whatever the identifier (0 included) and whatever the element (null
\* included).
C17_MergeSequences ==
    [][(Import(last') /\ last'.merge /\ substrate = "ok") =>
          \A key \in Candidates(last'.value) \ Failing(last'.value, last'.validate) :
             LET old == Stored(localStorage, key)
                 inc == Incoming(last'.value, key)
             IN  (IsArray(old) /\ IsArray(inc)) =>
                    Stored(localStorage', key)
                       = Arr(MergedById(old.items, inc.items, Len(inc.items)))]_vars

----------------------------------------------------------------------------
(* Claims about the reading list service *)

\* the identifiers of the books of the three buckets, as strings, in order
AllIds(lists) ==
    [i \in 1..Len(lists.reading) |-> String(Get(lists.reading[i], "id"))]
    \o [i \in 1..Len(lists.toRead) |-> String(Get(lists.toRead[i], "id"))]
    \o [i \in 1..Len(lists.completed) |-> String(Get(lists.completed[i], "id"))]

NoDuplicateIds(lists) ==
    LET ids == AllIds(lists)
    IN  \A i, j \in 1..Len(ids) : ids[i] = ids[j] => i = j

\* C2: whatever calls were made, successful or failed, no book identifier,
\* compared as a string, occurs twice in the buckets of listsCache (nor in
\* the default arrays the cache may come to share again)
C2_IdentifierInOneBucket ==
    NoDuplicateIds(listsCache) /\ NoDuplicateIds(defaultReadingLists)

\* a book given under the string "1" replaced the one held under the number 1
C2_Witness ==
    /\ lastList.op = "addToList"
    /\ lastList.res.success
    /\ lastList.res.event.listType = "toRead"
    /\ Len(listsCache.toRead) > 0
    /\ Get(listsCache.toRead[1], "id") = Str("1")
    /\ Len(AllIds(listsCache)) = Len(AllIds(initialDefaults))
    /\ \E i \in 1..Len(initialDefaults.reading) :
          Get(initialDefaults.reading[i], "id") = Num(1)
    /\ aliased

\* the entry e that addToList put into bucket b for `book` has the status
\* fields of the bucket
FollowsPolicy(e, book, b) ==
    CASE b = "reading" ->
            /\ HasProp(e, "progress")
            /\ e.props["progress"] = IF Truthy(Get(book, "progress"))
                                     THEN book.props["progress"] ELSE Num(0)
            /\ HasProp(e, "startedDate")
      [] b = "completed" ->
            HasProp(e, "completedDate") /\ ~HasProp(e, "progress")
      [] OTHER ->
            /\ HasProp(e, "addedDate")
            /\ ~HasProp(e, "progress")
            /\ ~HasProp(e, "completedDate")

\* the book is the first entry of bucket b and no other entry has its identifier
OnlyAtFront(lists, book, b) ==
    LET id == String(Get(book, "id"))
        ids == AllIds(lists)
    IN  /\ b \in BucketNames
        /\ Len(lists[b]) > 0
        /\ String(Get(lists[b][1], "id")) = id
        /\ Cardinality({i \in 1..Len(ids) : ids[i] = id}) = 1
        /\ FollowsPolicy(lists[b][1], book, b)

\* C19: after a successful addToList(book, b) the book is at the front of
\* bucket b and in no other bucket, with the fields of the bucket: progress
\* (0 unless the book brings one) and startedDate in reading; completedDate
\* and no progress in completed; addedDate and neither progress nor
\* completedDate in toRead.
C19_AddedAtFrontByPolicy ==
    [][\A book \in AddInputs : \A b \in ListTypeInputs :
          (AddToList(book, b) /\ lastList'.res.success) =>
             OnlyAtFront(listsCache', book, b)]_vars

\* book 1, which the defaults have in reading with a progress, has been added
\* to completed and is there only, without progress
C19_Witness ==
    /\ lastList.op = "addToList"
    /\ lastList.res.success
    /\ lastList.res.event.listType = "completed"
    /\ aliased
    /\ Len(listsCache.completed) > 0
    /\ String(Get(listsCache.completed[1], "id")) = "1"
    /\ ~HasProp(listsCache.completed[1], "progress")
    /\ HasProp(listsCache.completed[1], "completedDate")
    /\ \A i \in 1..Len(listsCache.reading) :
          String(Get(listsCache.reading[i], "id")) # "1"

\* C20: addToList returns a failed result, without throwing, with the
\* invalid-book error for a book without identifier and with the
\* invalid-list-type error for a bucket name that is not reading, toRead or
\* completed; the three buckets are as they were.
C20_InvalidAddRejected ==
    [][\A book \in AddInputs : \A b \in ListTypeInputs :
          (AddToList(book, b) /\ (b \notin BucketNames \/ ~HasProp(book, "id"))) =>
             /\ ~lastList'.res.success
             /\ ~lastList'.res.threw
             /\ lastList'.res.error = IF ~HasProp(book, "id") THEN "Invalid book data"
                                      ELSE "Invalid list type"
             /\ listsCache' = listsCache]_vars

\* Math.min and Math.max
Min(a, b) == IF a < b THEN a ELSE b

Max(a, b) == IF a > b THEN a ELSE b

\* the positions in the list of the entries with the identifier
PositionsOf(list, bookId) ==
    {i \in 1..Len(list) : String(Get(list[i], "id")) = String(bookId)}

\* the list without its i-th entry, the others in order
Without(list, i) ==
    [j \in 1..(Len(list) - 1) |-> IF j < i THEN list[j] ELSE list[j + 1]]

\* the first entry of the list with the identifier
FirstOf(list, bookId) ==
    CHOOSE i \in PositionsOf(list, bookId) : \A j \in PositionsOf(list, bookId) : i <= j

\* C21: updateProgress(id, v) of a book of the reading bucket, with
\* c = min(100, max(0, v)): for c < 100 the book is where it was in reading
\* with progress c and nothing else of the buckets has changed; for c = 100
\* the book is the first entry of completed, without a progress field, and in
\* no other bucket, all other entries as they were.  When reading does not
\* hold the book the call fails and neither the buckets nor the storage change.
C21_ProgressClampedOrCompleted ==
    [][\A bookId \in ShelfIds : \A v \in ShelfProgress :
          UpdateProgress(bookId, v) =>
             LET c == Min(100, Max(0, v))
                 held == PositionsOf(listsCache.reading, bookId)
             IN  IF held = {}
                 THEN /\ ~lastList'.res.success
                      /\ listsCache' = listsCache
                      /\ localStorage' = localStorage
                 ELSE LET i == FirstOf(listsCache.reading, bookId)
                      IN  IF c < 100
                          THEN /\ listsCache'.reading[i]
                                    = SetProp(listsCache.reading[i], "progress", Num(c))
                               /\ \A j \in (1..Len(listsCache.reading)) \ {i} :
                                     listsCache'.reading[j] = listsCache.reading[j]
                               /\ Len(listsCache'.reading) = Len(listsCache.reading)
                               /\ listsCache'.toRead = listsCache.toRead
                               /\ listsCache'.completed = listsCache.completed
                          ELSE /\ listsCache'.reading = Without(listsCache.reading, i)
                               /\ listsCache'.toRead = listsCache.toRead
                               /\ Tail(listsCache'.completed) = listsCache.completed
                               /\ String(Get(Head(listsCache'.completed), "id"))
                                    = String(bookId)
                               /\ ~HasProp(Head(listsCache'.completed), "progress")
                               /\ PositionsOf(listsCache'.reading, bookId) = {}
                               /\ PositionsOf(listsCache'.toRead, bookId) = {}
                               /\ PositionsOf(listsCache'.completed, bookId) = {1}]_vars

\* a progress of 150 moved book 1 from reading to the front of completed, and
\* the call returned success
C21_Witness ==
    /\ lastList.op = "updateProgress"
    /\ lastList.res.success
    /\ lastList.res.event.listType = "completed"
    /\ PositionsOf(listsCache.completed, Num(1)) = {1}
    /\ ~HasProp(listsCache.completed[1], "progress")
    /\ PositionsOf(listsCache.reading, Num(1)) = {}
    /\ PositionsOf(listsCache.toRead, Num(1)) = {}

\* the buckets, in the fixed order, that hold the identifier
HoldersOf(lists, bookId) ==
    {n \in 1..Len(Buckets) : PositionsOf(lists[Buckets[n]], bookId) # {}}

\* the first bucket, in the fixed order, that holds the identifier
FirstHolder(lists, bookId) ==
    Buckets[CHOOSE n \in HoldersOf(lists, bookId) :
               \A m \in HoldersOf(lists, bookId) : n <= m]

\* C22: updateRating(id, v) gives the first entry with the identifier, the
\* buckets searched in the order reading, toRead, completed, the userRating
\* min(5, max(0, v)); every other entry and every other field of that entry
\* is as it was and where it was.  When no bucket holds the identifier the
\* call fails and neither the buckets nor the storage change.
C22_RatingClampedInPlace ==
    [][\A bookId \in ShelfIds : \A v \in ShelfRatings :
          UpdateRating(bookId, v) =>
             IF HoldersOf(listsCache, bookId) = {}
             THEN /\ ~lastList'.res.success
                  /\ listsCache' = listsCache
                  /\ localStorage' = localStorage
             ELSE LET b == FirstHolder(listsCache, bookId)
                      i == FirstOf(listsCache[b], bookId)
                  IN  /\ listsCache'[b][i]
                           = SetProp(listsCache[b][i], "userRating", Num(Min(5, Max(0, v))))
                      /\ \A a \in BucketNames :
                            /\ Len(listsCache'[a]) = Len(listsCache[a])
                            /\ \A j \in 1..Len(listsCache[a]) :
                                  (a # b \/ j # i) => listsCache'[a][j] = listsCache[a][j]]_vars

\* a rating of 9 was given to book 1 in the reading bucket, which now has 5
C22_Witness ==
    /\ lastList.op = "updateRating"
    /\ lastList.res.success
    /\ lastList.res.event.listType = "reading"
    /\ PositionsOf(listsCache.reading, Num(1)) # {}
    /\ Get(listsCache.reading[FirstOf(listsCache.reading, Num(1))], "userRating") = Num(5)
    /\ Get(listsCache.reading[FirstOf(listsCache.reading, Num(1))], "progress") = Num(65)

\* C23: removeFromList(id) without a bucket takes out one entry, the first
\* one with the identifier in the first bucket, in the order reading, toRead,
\* completed, that holds it; every other entry stays where it was.  When no
\* bucket holds the identifier the call fails and neither the buckets nor
\* the storage change.
C23_RemovesFirstMatchOnly ==
    [][\A bookId \in ShelfRemovals :
          RemoveFromList(bookId, "") =>
             IF HoldersOf(listsCache, bookId) = {}
             THEN /\ ~lastList'.res.success
                  /\ listsCache' = listsCache
                  /\ localStorage' = localStorage
             ELSE LET b == FirstHolder(listsCache, bookId)
                      i == FirstOf(listsCache[b], bookId)
                  IN  /\ listsCache'[b] = Without(listsCache[b], i)
                      /\ \A a \in BucketNames \ {b} : listsCache'[a] = listsCache[a]]_vars

\* book 4, the second of the completed bucket behind book 1, which a progress
\* of 100 had moved there, was taken out; the others are left, in order
C23_Witness ==
    /\ lastList.op = "removeFromList"
    /\ lastList.res.success
    /\ lastList.res.event.listType = "completed"
    /\ String(Get(lastList.res.event.book, "id")) = "4"
    /\ HoldersOf(listsCache, Num(4)) = {}
    /\ aliased
    /\ PositionsOf(listsCache.completed, Num(1)) = {1}
    /\ Tail(listsCache.completed) = Without(initialDefaults.completed, 2)

\* the operations that change the books on the lists
Mutations == {"addToList", "removeFromList", "moveToList", "updateProgress", "updateRating"}

\* the value stored under the reading-lists key is the JSON form of the lists
PersistedAs(store, lists) ==
    /\ getFullKey(READING_LISTS) \in DOMAIN store
    /\ ~ParseThrows(store[getFullKey(READING_LISTS)])
    /\ Get(JSONparse(store[getFullKey(READING_LISTS)]), "data") = JsonValue(ListsValue(lists))

\* the invocation tells of a change op made that took the lists from `before`
\* to `after`: the bucket, the action and the book belong together
TellsOf(inv, op, before, after) ==
    /\ inv.listType \in BucketNames
    /\ inv.lists = after
    /\ inv.action = CASE op \in {"addToList", "moveToList"} -> "add"
                       [] op = "removeFromList" -> "remove"
                       [] op = "updateRating" -> "update"
                       [] OTHER -> IF inv.listType = "completed" THEN "add" ELSE "update"
    /\ IF inv.action = "remove"
       THEN /\ \E i \in 1..Len(before[inv.listType]) : before[inv.listType][i] = inv.book
            /\ HoldersOf(after, Get(inv.book, "id")) = {}
       ELSE \E i \in 1..Len(after[inv.listType]) : after[inv.listType][i] = inv.book

\* C24: when addToList, removeFromList, moveToList, updateProgress or
\* updateRating returns success, the value stored under the reading-lists key
\* is that of the three buckets of listsCache, and every callback registered
\* was called once, and no other, with the bucket, the action and the book of
\* the change and with listsCache.
C24_SavedAndNotifiedOnce ==
    [][(lastList'.op \in Mutations /\ lastList'.res.success) =>
          /\ PersistedAs(localStorage', listsCache')
          /\ Len(notified') = Len(subscribers)
          /\ \A i \in 1..Len(subscribers) :
                Cardinality({j \in 1..Len(notified') :
                                notified'[j].callback = subscribers[i]}) = 1
          /\ \A j \in 1..Len(notified') :
                TellsOf(notified'[j], lastList'.op, listsCache, listsCache')]_vars

\* book 1 was taken off the lists with one view subscribed, which was told of
\* the removal; the stored lists are those in memory
C24_Witness ==
    /\ lastList.op = "removeFromList"
    /\ lastList.res.success
    /\ subscribers = <<"view">>
    /\ Len(notified) = 1
    /\ notified[1].callback = "view"
    /\ notified[1].action = "remove"
    /\ notified[1].lists = listsCache
    /\ String(Get(notified[1].book, "id")) = "1"
    /\ PersistedAs(localStorage, listsCache)

\* C25: when a callback throws while the subscribers are told of a change,
\* every callback registered is called all the same, the operation returns
\* success without throwing, and the stored lists and listsCache are those of
\* the change made.
C25_ThrowingSubscriberContained ==
    [][(/\ lastList'.op \in Mutations
        /\ \E j \in 1..Len(notified') : Throws(notified'[j].callback)) =>
          /\ \A i \in 1..Len(subscribers) :
                \E j \in 1..Len(notified') : notified'[j].callback = subscribers[i]
          /\ lastList'.res.success
          /\ ~lastList'.res.threw
          /\ PersistedAs(localStorage', listsCache')
          /\ \A j \in 1..Len(notified') :
                TellsOf(notified'[j], lastList'.op, listsCache, listsCache')]_vars

\* the callback that throws was told first, the view after it, of a progress
\* that took book 1 to completed; the call returned success
C25_Witness ==
    /\ lastList.op = "updateProgress"
    /\ lastList.res.success
    /\ subscribers = <<"faulty", "view">>
    /\ Len(notified) = 2
    /\ notified[1].callback = "faulty"
    /\ notified[2].callback = "view"
    /\ notified[2].listType = "completed"
    /\ PositionsOf(listsCache.completed, Num(1)) = {1}
    /\ PersistedAs(localStorage, listsCache)

\* C26: right after initReadingLists has run on module load with a substrate
\* that can be reached and has hydrated listsCache with the default set, the
\* reading-lists key is in storage and holds the default buckets.
C26_DefaultsPersistedOnFirstUse ==
    (/\ lastList.op = "initReadingLists"
     /\ substrate = "ok"
     /\ listsCache = initialDefaults)
       => PersistedAs(localStorage, initialDefaults)

\* C35: a call of resetToDefaults that returns success leaves the three
\* buckets of listsCache and the lists stored under the reading-lists key equal
\* to the seeded defaults, whatever was done to the lists before.
C35_ResetRestoresSeed ==
    [][(ResetToDefaults /\ lastList'.res.success) =>
          /\ listsCache' = initialDefaults
          /\ PersistedAs(localStorage', initialDefaults)]_vars

\* the codes a save that failed returns to the list operations
SaveFailureCodes == {"STORAGE_UNAVAILABLE", "QUOTA_EXCEEDED", "VALIDATION_FAILED"}

\* C37: when the save fails in addToList, removeFromList, updateProgress or
\* updateRating, the call returns a failure, no callback is called, and the
\* buckets of listsCache are those from before the call.
C37_FailedSaveLeavesMemory ==
    [][(/\ lastList'.op \in {"addToList", "removeFromList", "updateProgress", "updateRating"}
        /\ lastList'.res.error \in SaveFailureCodes) =>
          /\ ~lastList'.res.success
          /\ notified' = <<>>
          /\ listsCache' = listsCache]_vars

\* what loadData(key) gives after the same import on a substrate that takes
\* every write
StoredByImport(c, s, t, key) ==
    Stored(importData(s, "ok", t, c.value, c.merge, c.validate).store, key)

\* C38: after an importData that returns success, loadData of every key listed
\* in `imported` returns the incoming value of the key, or with merge=true the
\* merged value, also when the substrate rejects the writes of the import for
\* lack of space.
C38_ImportedKeysWritten ==
    [][(Import(last') /\ last'.res.success) =>
          \A key \in last'.res.imported :
             /\ ~last'.merge => Stored(localStorage', key) = Incoming(last'.value, key)
             /\ Stored(localStorage', key) = StoredByImport(last', localStorage, now, key)]_vars

\* the value stored under the key, if any, satisfies the schema of the key
SchemaKept(s, key) == getFullKey(key) \in DOMAIN s => StoredValid(s, key)

\* C39: after an importData with validate=true, in overwrite and in merge
\* mode, the stored value of every key listed in `imported` satisfies the
\* schema registered for the key, provided the stored values satisfied their
\* schemas before the call.
C39_ImportKeepsSchemas ==
    [][(/\ Import(last')
        /\ last'.validate
        /\ \A key \in AppKeys : SchemaKept(localStorage, key)) =>
          \A key \in last'.res.imported : SchemaKept(localStorage', key)]_vars

\* C40: loadData, exportData and getStorageStats leave every key and value of
\* localStorage as they were, the keys of other scripts too, also one stored
\* under the name the availability probe uses.
C40_ReadsLeaveSubstrate ==
    [][last'.op \in {"load", "export", "stats"} => localStorage' = localStorage]_vars

----------------------------------------------------------------------------
(* Claims about the rate limiter *)

\* C4: the number of requests that went out inside the window the limiter
\* recorded never exceeds maxRequests, however many calls sleep and wake
C4_WindowCapRespected == issued <= maxRequests

\* the calls given so far
Entered == 1..calls

\* the calls that have reached fetch
Fetched == {r.id : r \in served}

\* C5: a call that finds the window full sleeps until the window it found
\* has ended and then sends its request; every call given reaches fetch
C5_ExcessDelayedNeverDropped ==
    /\ [][waiting # <<>> /\ waiting' # waiting /\ Len(waiting') < Len(waiting) =>
            /\ now >= Head(waiting).from + timeWindow
            /\ \E r \in served' : r.id = Head(waiting).id]_vars
    /\ \A id \in 1..MaxBurst : (id \in Entered) ~> (id \in Fetched)

\* a call slept through the end of a full window and then went out
C5_Witness ==
    /\ calls > maxRequests
    /\ waiting = <<>>
    /\ Fetched = Entered
    /\ \E r \in served : r.slept /\ r.id > maxRequests

----------------------------------------------------------------------------
(* Claims about the catalog client *)

\* a call has just been given to the client
Began == calls' = calls + 1

\* the call under way has just settled
JustSettled == call.pc # "settled" /\ call'.pc = "settled"

\* the options of a search, whatever the order they were given in
Pairs(searchOptions) == {searchOptions[n] : n \in DOMAIN searchOptions}

\* two cache keys of searches with the same source, query and options
SameSearch(k1, k2) ==
    /\ k1[1] = "search" /\ k2[1] = "search"
    /\ k1[2] = k2[2] /\ k1[3] = k2[3]
    /\ Pairs(k1[4]) = Pairs(k2[4])

\* no entry leaves the cache except by clearCache or by the read of a call
\* that finds it expired
RemovedOnlyByReadOrClear ==
    \A k \in DOMAIN cache :
       k \notin DOMAIN cache' =>
          \/ cache' = NoEntries /\ call' = call
          \/ Began /\ call'.key = k /\ now > cache[k].expiry

\* C3, as stated: a search with the source, query and options of an entry
\* that has not expired sends nothing; the first one after the expiry evicts
\* the entry, sends exactly one request and stores a fresh entry; nothing
\* else removes an entry
C3_CachedWithinTtlOneCallAfter ==
    [][/\ (Began /\ call'.kind = "search"
             /\ \E k \in DOMAIN cache : SameSearch(k, call'.key) /\ now <= cache[k].expiry)
          => (call'.pc = "settled" /\ call'.fetches = 0)
       /\ (Began /\ call'.evicted) => call'.key \notin DOMAIN cache'
       /\ (JustSettled /\ call'.evicted)
          => /\ call'.fetches = 1
             /\ call'.key \in DOMAIN cache'
             /\ cache'[call'.key].expiry = now' + ttl
       /\ RemovedOnlyByReadOrClear]_vars

\* C3, amended: a search whose cache key (source, query and the text of the
\* options, in the order given) has an entry that has not expired sends
\* nothing and returns the entry; the first one after the expiry evicts the
\* entry and sends one request per attempt, and stores a fresh entry if and
\* only if it resolves; nothing else removes an entry
C3_CachedByKeyRefreshedOnSuccess ==
    [][/\ (Began /\ call'.key \in DOMAIN cache /\ now <= cache[call'.key].expiry)
          => /\ call'.pc = "settled"
             /\ call'.fetches = 0
             /\ call'.result = Resolved(cache[call'.key].data)
             /\ cache' = cache
       /\ (Began /\ call'.evicted)
          => (call'.key \notin DOMAIN cache' /\ call'.fetches = 1)
       /\ (JustSettled /\ call'.evicted)
          => /\ call'.fetches = call'.i + 1
             /\ IF call'.result.status = "resolved"
                THEN /\ call'.key \in DOMAIN cache'
                     /\ cache'[call'.key].expiry = now' + ttl
                ELSE call'.key \notin DOMAIN cache'
       /\ RemovedOnlyByReadOrClear]_vars

\* a search found its entry expired, evicted it, fetched once and stored a
\* fresh one
C3_Witness ==
    /\ call.pc = "settled"
    /\ call.kind = "search"
    /\ call.evicted
    /\ call.result.status = "resolved"
    /\ call.fetches = 1
    /\ call.key \in DOMAIN cache
    /\ cache[call.key].expiry = now + ttl

\* C6: a call whose primary request was answered 404 made exactly one
\* primary request and rejects with NOT_FOUND
C6_NotFoundNeverRetried ==
    (call.pc = "settled" /\ call.saw404)
       => /\ call.fetches = 1
          /\ call.result.status = "rejected"
          /\ call.result.code = "NOT_FOUND"

\* C7: a call whose attempts all failed, none with a 404, made
\* maxRetries + 1 attempts, slept retryDelay * 2^i after attempt i for
\* i = 0..2 and not after the last, and rejects with the last failure; an
\* attempt that succeeds is the last one; a call under way always settles
C7_RetrySchedule ==
    /\ [](/\ call.i <= maxRetries
          /\ (call.pc = "settled" /\ call.result.status = "rejected" /\ ~call.saw404)
             => /\ call.fetches = maxRetries + 1
                /\ call.waits = <<retryDelay, 2 * retryDelay, 4 * retryDelay>>
                /\ call.result = Rejected(thrown(call.kind, call.lastOutcome))
          /\ (call.lastOutcome = "ok")
             => /\ call.pc \in {"settled", "fetching", "limited"}
                /\ call.fetches = call.i + 1
                /\ Len(call.waits) = call.i)
    /\ [][JustSettled /\ call.stage = "primary" /\ call'.lastOutcome # "timeout"
             => now' = now]_vars
    /\ (call.pc \notin {"idle", "settled"}) ~> (call.pc = "settled")

\* four attempts failed, the last one by timing out, and the call rejected
C7_Witness ==
    /\ call.pc = "settled"
    /\ call.result.status = "rejected"
    /\ call.result.code = "TIMEOUT"
    /\ ~call.saw404
    /\ call.fetches = maxRetries + 1
    /\ call.i = maxRetries

\* the call just given finds an entry for its key that has not expired
FoundInCache == Began /\ call'.key \in DOMAIN cache /\ now <= cache[call'.key].expiry

\* C27: a search or getBookDetails call that finds its answer in the cache
\* settles at once with that answer: it sends no request, does not sleep for
\* the rate limiter, and requestCount and lastRequestTime, the counter and the
\* start of the window, are what they were.
C27_CacheHitLeavesLimiterAlone ==
    [][FoundInCache =>
          /\ call'.pc = "settled"
          /\ call'.result = Resolved(cache[call'.key].data)
          /\ call'.fetches = 0
          /\ ~call'.timer
          /\ now' = now
          /\ requestCount' = requestCount
          /\ lastRequestTime' = lastRequestTime
          /\ issued' = issued]_vars

\* a getBookDetails call was answered from the cache when the window the
\* limiter holds had run out
C27_Witness ==
    /\ call.pc = "settled"
    /\ call.kind = "bookDetails"
    /\ call.fetches = 0
    /\ calls = 2
    /\ call.result.status = "resolved"
    /\ call.key \in DOMAIN cache
    /\ requestCount > 0
    /\ now - lastRequestTime > timeWindow

\* fetchWithTimeout is entered: by the first attempt, by an attempt after a
\* backoff, or for the author of a work
AttemptStarts ==
    \/ call.pc \in {"idle", "settled", "backoff"} /\ call'.pc \in {"fetching", "limited"}
    \/ call.pc = "fetching" /\ call.stage = "primary" /\ call'.stage = "author"

\* an attempt that was under way ends by the abort of its request
TimesOut ==
    /\ call.pc = "fetching"
    /\ call.stage = "primary"
    /\ call' # call
    /\ call'.stage = "primary"
    /\ call'.lastOutcome = "timeout"

\* C28: the timer of an attempt is set when the attempt starts and runs
\* through the sleep for the rate limiter; a request is never out beyond
\* fetchTimeout = 10000 ms after that start, and one without a response by
\* then is aborted at that time; a call whose attempts all ended that way made
\* maxRetries + 1 attempts and rejects with TIMEOUT; no timer is pending when
\* no attempt is under way.
C28_TimeoutFromAttemptStart ==
    /\ fetchTimeout = 10000
    /\ [](/\ (call.pc \in {"fetching", "limited"})
             => (call.timer /\ now <= call.started + fetchTimeout)
          /\ (call.pc \in {"idle", "backoff", "settled"}) => ~call.timer
          /\ (call.pc = "settled" /\ call.result.status = "rejected" /\ call.onlyTimeouts)
             => /\ call.result.code = "TIMEOUT"
                /\ call.result.name = "ApiError"
                /\ call.fetches = maxRetries + 1)
    /\ [][/\ AttemptStarts => (call'.started = now' /\ call'.timer)
          /\ (call.pc = "limited" /\ call'.pc = "fetching")
             => (call'.started = call.started /\ now' > call.started /\ call'.timer)
          /\ TimesOut => now' = call.started + fetchTimeout]_vars

\* all four attempts of a call timed out, each 10000 ms after it started, with
\* the backoffs in between, and the call rejected with TIMEOUT
C28_Witness ==
    /\ call.pc = "settled"
    /\ call.result.status = "rejected"
    /\ call.result.code = "TIMEOUT"
    /\ call.onlyTimeouts
    /\ call.fetches = maxRetries + 1
    /\ ~call.timer
    /\ calls = 1
    /\ now = Epoch + 4 * fetchTimeout + 7 * retryDelay

\* ErrorCodes
ErrorCodes ==
    {"NETWORK_ERROR", "RATE_LIMITED", "NOT_FOUND", "INVALID_RESPONSE", "TIMEOUT", "UNKNOWN"}

\* the call has rejected
HasRejected == call.pc = "settled" /\ call.result.status = "rejected"

\* C29: whatever made the last attempt fail, a search or getBookDetails call
\* that rejects does so with an ApiError that has one of the six codes and a
\* message; the code is NOT_FOUND after a 404, RATE_LIMITED after a 429 and
\* TIMEOUT after an abort.
C29_RejectsWithApiError ==
    HasRejected =>
       /\ call.result.name = "ApiError"
       /\ call.result.code \in ErrorCodes
       /\ call.result.message # ""
       /\ call.lastOutcome = "http404" => call.result.code = "NOT_FOUND"
       /\ call.lastOutcome = "http429" => call.result.code = "RATE_LIMITED"
       /\ call.lastOutcome = "timeout" => call.result.code = "TIMEOUT"

\* a search rejected with RATE_LIMITED after four answers 429
C29_Witness ==
    /\ HasRejected
    /\ call.kind = "search"
    /\ call.lastOutcome = "http429"
    /\ call.result.code = "RATE_LIMITED"
    /\ call.result.httpStatus = 429
    /\ call.fetches = maxRetries + 1

\* C30: a call whose last answer had a body that is not JSON, or a JSON body
\* without the list of results a search expects, rejects with
\* INVALID_RESPONSE.
C30_MalformedIsInvalidResponse ==
    (/\ call.pc = "settled"
     /\ \/ call.lastOutcome = "notjson"
        \/ call.lastOutcome = "nolist" /\ call.kind = "search")
       => (call.result.status = "rejected" /\ call.result.code = "INVALID_RESPONSE")

\* C36: the global loading flag is true exactly when the search flag or the
\* bookDetails flag is true, so it is false again once every call has
\* settled.
C36_GlobalFollowsFlags == loading.global <=> (loading.search \/ loading.bookDetails)

\* a call misses the cache and goes to the network
Enters == calls' = calls + 1 /\ call'.pc # "settled"

\* the call under way settles
Leaves == call.pc \notin {"idle", "settled"} /\ call'.pc = "settled" /\ calls' = calls

\* the error the call rejected with, as getLastError() returns it
ErrorOf(c) == ApiError(c.result.message, c.result.httpStatus, c.result.code)

\* C32 as stated: the error of a failed call stays the last error when a call
\* of the other category starts, and when it settles, whether it resolves or
\* rejects.
C32_ErrorsPerCategory ==
    [][(/\ call.pc = "settled"
        /\ call.result.status = "rejected"
        /\ lastError = ErrorOf(call)
        /\ Enters
        /\ call'.kind # call.kind) => lastError' = lastError]_vars

\* C32, amended: the last error is one value for both categories.  A call of
\* either category that misses the cache sets it to null when it starts, a
\* call that rejects sets it to the ApiError it rejects with, and no other
\* step changes it: not a call answered from the cache, not a call that
\* resolves.
C32_OneLastError ==
    [][/\ Enters => lastError' = Null
       /\ (Leaves /\ call'.result.status = "rejected")
          => (lastError' = ErrorOf(call') /\ lastError'.name = "ApiError")
       /\ ~(Enters \/ (Leaves /\ call'.result.status = "rejected"))
          => lastError' = lastError]_vars

\* the second call of the session, a getBookDetails call whose four attempts
\* timed out, has rejected, and the last error is the ApiError it rejected
\* with
C32_Witness ==
    /\ calls = 2
    /\ call.pc = "settled"
    /\ call.kind = "bookDetails"
    /\ call.result.status = "rejected"
    /\ call.fetches = maxRetries + 1
    /\ lastError = ErrorOf(call)
    /\ lastError.code = "TIMEOUT"
    /\ ~loading.bookDetails

\* how many calls of the category are past their cache miss and not settled
InFlight(kind) ==
    (IF call.pc \notin {"idle", "settled"} /\ call.kind = kind THEN 1 ELSE 0)
    + Cardinality({i \in 1..Len(parked) : parked[i].kind = kind})

\* C31: the loading flag of a category is true exactly when a call of the
\* category is in flight, also when calls of the category overlap, so it is
\* false when all have settled; and when a flag changes every subscriber is
\* called with the new loading state.
C31_FlagWhileInFlight ==
    /\ [](\A kind \in {"search", "bookDetails"} : loading[kind] <=> InFlight(kind) > 0)
    /\ [][loading' # loading =>
             \A i \in 1..Len(loadingSubscribers) :
                \E j \in 1..Len(loadingNotified') :
                   loadingNotified'[j] = [callback |-> loadingSubscribers[i],
                                          state |-> loading']]_vars

\* C34: a search begun while another with the same key is in flight, with no
\* entry for the key in the cache, misses and sends a request of its own; a
\* call that resolves leaves one entry for its key, with its data and its
\* expiry, and the other entries as they were, so that once all calls have
\* settled the entry is that of the call that settled last; and a call that
\* raced with another and was answered resolves.
C34_LastWriterWins ==
    /\ [][(/\ calls' = calls + 1
           /\ call'.key \notin DOMAIN cache
           /\ \E i \in 1..Len(parked) : parked[i].key = call'.key)
             => /\ call'.pc = "fetching"
                /\ call'.fetches = 1
                /\ call'.raced
                /\ requestCount' = requestCount + 1]_vars
    /\ [][(Leaves /\ call'.result.status = "resolved") =>
             /\ DOMAIN cache' = DOMAIN cache \cup {call'.key}
             /\ cache'[call'.key] = [data |-> call'.result.data, expiry |-> now' + ttl]
             /\ \A k \in DOMAIN cache \ {call'.key} : cache'[k] = cache[k]]_vars
    /\ [][(Leaves /\ call.raced /\ call'.lastOutcome = "ok")
             => call'.result.status = "resolved"]_vars
    /\ [](/\ call.pc = "settled"
          /\ call.result.status = "resolved"
          /\ call.fetches > 0
          /\ parked = <<>>)
            => /\ call.key \in DOMAIN cache
               /\ cache[call.key] = [data |-> call.result.data, expiry |-> now + ttl]

\* two searches with the same key were under way together; the one that was
\* answered last, after the other and with another body, has resolved, and the
\* cache holds its body and its expiry
C34_Witness ==
    /\ calls = 2
    /\ parked = <<>>
    /\ call.pc = "settled"
    /\ call.kind = "search"
    /\ call.raced
    /\ call.result = Resolved(Str("fetched anew"))
    /\ now > call.started
    /\ cache[call.key] = [data |-> Str("fetched anew"), expiry |-> now + ttl]

\* the names of the authors whose sub-request was answered ok, in the order of
\* the references
NamesOfAnswered(subs) ==
    LET answered == SelectSeq([i \in 1..Len(subs) |-> i], LAMBDA i : subs[i].outcome = "ok")
    IN  [j \in 1..Len(answered) |-> Str("author " \o ToString(answered[j]))]

\* the call is a getBookDetails call on the primary backend that has got as
\* far as the authors of the work
WithAuthors == call.kind = "bookDetails" /\ call.source = "openlibrary" /\ call.refs > 0

\* C33: an attempt of getBookDetails on the primary backend makes a
\* sub-request for at most 3 author references, the first 3, whatever their
\* number; whatever way a sub-request ends, the call does not reject for it,
\* and it resolves with the names of the authors whose sub-request was
\* answered ok, in the order of the references, the others left out.
C33_AuthorsCappedAndTolerated ==
    /\ [](WithAuthors =>
             /\ Len(call.subs) <= 3
             /\ Len(call.subs) = Min(call.refs, 3)
             /\ call.result.status # "rejected"
             /\ call.pc \in {"fetching", "limited", "settled"}
             /\ call.pc = "settled" =>
                   /\ call.result.status = "resolved"
                   /\ \A i \in 1..Len(call.subs) : call.subs[i].pc = "done"
                   /\ Get(call.result.data, "authors") = Arr(NamesOfAnswered(call.subs)))
    /\ [][(call.stage = "author" /\ call.pc # "settled" /\ call' # call) =>
             /\ call'.stage = "author"
             /\ call'.i = call.i
             /\ call'.fetches = call.fetches]_vars

\* a work with four author references: three sub-requests were made, the
\* first timed out, the second was answered, the third was answered 404, and
\* the call resolved with the second author alone
C33_Witness ==
    /\ call.pc = "settled"
    /\ WithAuthors
    /\ call.refs = 4
    /\ Len(call.subs) = 3
    /\ call.subs[1].outcome = "timeout"
    /\ call.subs[2].outcome = "ok"
    /\ call.subs[3].outcome = "http404"
    /\ call.result = Resolved(normalizeOpenLibraryBookDetails(Str("fetched"),
                                                              <<Str("author 2")>>))

====
